---- MODULE Spec2Model ----
(***************************************************************************)
(* A model of gimli's low-level decoding core (src/parser.rs) and of the   *)
(* abbreviation data model (src/types.rs).                                 *)
(*                                                                         *)
(* Memory is one byte buffer `buf`.  A cursor (an EndianBuf, or a &[u8])   *)
(* is a window [lo, hi) onto it, so that the position of a cursor (as_ptr) *)
(* is its `lo`.  Multi-byte integers are kept as little-endian tuples of   *)
(* bytes of the integer's width (a u64 is 8 bytes), because their values   *)
(* do not fit the checker's integers; signedness is a matter of how a      *)
(* tuple is widened (ZeroExtend / SignExtend).                             *)
(***************************************************************************)
EXTENDS Integers, Sequences, FiniteSets, TLC

VARIABLES
    buf,        \* the bytes of the section being parsed
    endian,     \* the byte order of the cursors ("little" or "big")
    section,    \* the cursor at the start of the enclosing section
    input,      \* the caller's current cursor
    bases,      \* the caller-owned BaseAddresses
    last,       \* the last call: its operation, arguments and result
    abbrevs,    \* the caller's Abbreviations: code -> Abbreviation
    calls       \* the calls in progress, one per thread

vars == <<buf, endian, section, input, bases, last, abbrevs, calls>>

----------------------------------------------------------------------------
(* Bounds of the model.                                                    *)

\* The longest run of one repeated byte at the start of a buffer.
MaxFill == 9
\* The number of freely chosen bytes that follow the run.
MaxTail == 2

----------------------------------------------------------------------------
(* Bytes and fixed-width integers.                                         *)

Byte == 0..255

None == [some |-> FALSE, v |-> <<>>]
Some(x) == [some |-> TRUE, v |-> x]

\* The low `n` bits of byte b, least significant first.
BitsOf(b, n) == [i \in 1..n |-> (b \div (2 ^ (i - 1))) % 2]

\* A sequence of 64 bits (least significant first) as 8 little-endian bytes.
BitsToU64(bits) ==
    [k \in 1..8 |->
        bits[8*k-7] + 2*bits[8*k-6] + 4*bits[8*k-5] + 8*bits[8*k-4]
        + 16*bits[8*k-3] + 32*bits[8*k-2] + 64*bits[8*k-1] + 128*bits[8*k]]

\* `v as u64` for an unsigned v of n bytes.
ZeroExtend(v) == [k \in 1..8 |-> IF k <= Len(v) THEN v[k] ELSE 0]

\* `v as u64` for a signed v of n bytes: the sign bit fills the high bytes.
SignExtend(v) ==
    [k \in 1..8 |-> IF k <= Len(v) THEN v[k]
                    ELSE IF v[Len(v)] >= 128 THEN 255 ELSE 0]

\* A natural number below 2^31 as a u64.
U64(n) ==
    [k \in 1..8 |-> IF k <= 4 THEN (n \div (256 ^ (k - 1))) % 256 ELSE 0]

RECURSIVE AddCarry(_, _, _, _)
AddCarry(x, y, k, carry) ==
    IF k > 8 THEN <<>>
    ELSE LET s == x[k] + y[k] + carry
         IN  <<s % 256>> \o AddCarry(x, y, k + 1, s \div 256)

\* u64::wrapping_add: the sum modulo 2^64, the carry out of byte 8 dropped.
wrapping_add(x, y) == AddCarry(x, y, 1, 0)

----------------------------------------------------------------------------
(* Cursors.                                                                *)

\* EndianBuf::len / <[u8]>::len
len(c) == c.hi - c.lo

\* c[i]
at(c, i) == buf[c.lo + i + 1]

\* EndianBuf::range_from(n..) / &c[n..]
range_from(c, n) == [lo |-> c.lo + n, hi |-> c.hi]

\* EndianBuf::range_to(..n) / &c[..n]
range_to(c, n) == [lo |-> c.lo, hi |-> c.lo + n]

\* The bytes a cursor shows.
bytes(c) == SubSeq(buf, c.lo + 1, c.hi)

\* Endianity::read_u16 / read_u32 / read_u64 (and the signed ones, which
\* read the same bits): the first n bytes in the cursor's byte order, given
\* least significant byte first.
read(e, c, n) ==
    [k \in 1..n |-> IF e = "little" THEN at(c, k - 1) ELSE at(c, n - k)]

----------------------------------------------------------------------------
(* Results.                                                                *)

NoBuf == [lo |-> 0, hi |-> 0]

Ok(rest, value) ==
    [kind |-> "Ok", err |-> "", arg |-> 0, rest |-> rest, value |-> <<value>>]

Err(e) ==
    [kind |-> "Err", err |-> e, arg |-> 0, rest |-> NoBuf, value |-> <<>>]

ErrWith(e, a) ==
    [kind |-> "Err", err |-> e, arg |-> a, rest |-> NoBuf, value |-> <<>>]

\* The call did not return: a panic (an arithmetic overflow check, an
\* unreachable!(), an assertion).
Panic(what) ==
    [kind |-> "Panic", err |-> what, arg |-> 0, rest |-> NoBuf, value |-> <<>>]

IsOk(r) == r.kind = "Ok"
IsErr(r, e) == r.kind = "Err" /\ r.err = e
ValueOf(r) == r.value[1]

----------------------------------------------------------------------------
(* Fixed-width primitive decoders.                                         *)

parse_u8(c) ==
    IF len(c) = 0 THEN Err("UnexpectedEof")
    ELSE Ok(range_from(c, 1), at(c, 0))

parse_i8(c) ==
    IF len(c) = 0 THEN Err("UnexpectedEof")
    ELSE Ok(range_from(c, 1), IF at(c, 0) >= 128 THEN at(c, 0) - 256 ELSE at(c, 0))

parse_u16(e, c) ==
    IF len(c) < 2 THEN Err("UnexpectedEof")
    ELSE Ok(range_from(c, 2), read(e, c, 2))

parse_i16(e, c) ==
    IF len(c) < 2 THEN Err("UnexpectedEof")
    ELSE Ok(range_from(c, 2), read(e, c, 2))

\* Four bytes read and the cursor moved by three.
parse_u32_short_advance(e, c) ==
    IF len(c) < 4 THEN Err("UnexpectedEof")
    ELSE Ok(range_from(c, 3), read(e, c, 4))

\* An off-by-one length check: exactly four bytes are refused.
parse_u32_off_by_one(e, c) ==
    IF len(c) <= 4 THEN Err("UnexpectedEof")
    ELSE Ok(range_from(c, 4), read(e, c, 4))

parse_u32(e, c) ==
    IF len(c) < 4 THEN Err("UnexpectedEof")
    ELSE Ok(range_from(c, 4), read(e, c, 4))

parse_i32(e, c) ==
    IF len(c) < 4 THEN Err("UnexpectedEof")
    ELSE Ok(range_from(c, 4), read(e, c, 4))

parse_u64(e, c) ==
    IF len(c) < 8 THEN Err("UnexpectedEof")
    ELSE Ok(range_from(c, 8), read(e, c, 8))

parse_i64(e, c) ==
    IF len(c) < 8 THEN Err("UnexpectedEof")
    ELSE Ok(range_from(c, 8), read(e, c, 8))

parse_u8e(c) == parse_u8(c)

parse_i8e(c) == parse_i8(c)

parse_u32_as_u64(e, c) ==
    IF len(c) < 4 THEN Err("UnexpectedEof")
    ELSE Ok(range_from(c, 4), ZeroExtend(read(e, c, 4)))

----------------------------------------------------------------------------
(* LEB128 (the leb128 crate's readers, as parser.rs calls them).           *)

\* The bits gathered so far, cut or padded with `fill` to 64 bits.
To64(bits, fill) ==
    [i \in 1..64 |-> IF i <= Len(bits) THEN bits[i] ELSE fill]

\* The unsigned reader without the test of the byte read at shift 63.
RECURSIVE leb128_read_unsigned_unchecked(_, _, _)
leb128_read_unsigned_unchecked(c, i, bits) ==
    IF i >= len(c) THEN Err("IoError(UnexpectedEof)")
    ELSE LET b == at(c, i)
         IN  IF b < 128
             THEN Ok(range_from(c, i + 1),
                     BitsToU64(To64(bits \o BitsOf(b, 7), 0)))
             ELSE leb128_read_unsigned_unchecked(c, i + 1,
                                                 bits \o BitsOf(b, 7))

\* leb128::read::unsigned: byte i of the cursor is read with shift = 7 * i.
RECURSIVE leb128_read_unsigned(_, _, _)
leb128_read_unsigned(c, i, bits) ==
    IF i >= len(c) THEN Err("IoError(UnexpectedEof)")
    ELSE LET b == at(c, i)
         IN  IF 7 * i = 63 /\ b # 0 /\ b # 1 THEN Err("Overflow")
             ELSE IF b < 128
                  THEN Ok(range_from(c, i + 1),
                          BitsToU64(To64(bits \o BitsOf(b, 7), 0)))
                  ELSE leb128_read_unsigned(c, i + 1, bits \o BitsOf(b, 7))

\* The signed reader without the sign extension.
RECURSIVE leb128_read_signed_zero_filled(_, _, _)
leb128_read_signed_zero_filled(c, i, bits) ==
    IF i >= len(c) THEN Err("IoError(UnexpectedEof)")
    ELSE LET b == at(c, i)
         IN  IF 7 * i = 63 /\ b # 0 /\ b # 127 THEN Err("Overflow")
             ELSE IF b < 128
                  THEN Ok(range_from(c, i + 1),
                          BitsToU64(To64(bits \o BitsOf(b, 7), 0)))
                  ELSE leb128_read_signed_zero_filled(c, i + 1,
                                                      bits \o BitsOf(b, 7))

\* leb128::read::signed: as above, and the result is sign extended from the
\* last byte's bit 6 when fewer than 64 bits were read.
RECURSIVE leb128_read_signed(_, _, _)
leb128_read_signed(c, i, bits) ==
    IF i >= len(c) THEN Err("IoError(UnexpectedEof)")
    ELSE LET b == at(c, i)
         IN  IF 7 * i = 63 /\ b # 0 /\ b # 127 THEN Err("Overflow")
             ELSE IF b < 128
                  THEN Ok(range_from(c, i + 1),
                          BitsToU64(To64(bits \o BitsOf(b, 7),
                                         IF 7 * (i + 1) < 64 THEN (b \div 64) % 2
                                         ELSE 0)))
                  ELSE leb128_read_signed(c, i + 1, bits \o BitsOf(b, 7))

\* Every failure of the reader reported as a malformed value.
parse_unsigned_leb_all_bad(c) ==
    LET r == leb128_read_unsigned(c, 0, <<>>)
    IN  IF IsOk(r) THEN r ELSE Err("BadUnsignedLeb128")

parse_unsigned_leb(c) ==
    LET r == leb128_read_unsigned(c, 0, <<>>)
    IN  IF IsOk(r) THEN r
        ELSE IF r.err = "IoError(UnexpectedEof)" THEN Err("UnexpectedEof")
        ELSE Err("BadUnsignedLeb128")

parse_signed_leb(c) ==
    LET r == leb128_read_signed(c, 0, <<>>)
    IN  IF IsOk(r) THEN r
        ELSE IF r.err = "IoError(UnexpectedEof)" THEN Err("UnexpectedEof")
        ELSE Err("BadSignedLeb128")

parse_unsigned_lebe(c) == parse_unsigned_leb(c)

parse_signed_lebe(c) == parse_signed_leb(c)

----------------------------------------------------------------------------
(* Addresses.                                                              *)

parse_address(e, c, address_size) ==
    IF len(c) < address_size THEN Err("UnexpectedEof")
    ELSE IF address_size \in {1, 2, 4, 8}
         THEN Ok(range_from(c, address_size),
                 ZeroExtend(read(e, c, address_size)))
         ELSE ErrWith("UnsupportedAddressSize", address_size)

----------------------------------------------------------------------------
(* Pointer encodings (constants::DwEhPe).                                  *)

DW_EH_PE_absptr == 0
DW_EH_PE_uleb128 == 1
DW_EH_PE_udata2 == 2
DW_EH_PE_udata4 == 3
DW_EH_PE_udata8 == 4
DW_EH_PE_sleb128 == 9
DW_EH_PE_sdata2 == 10
DW_EH_PE_sdata4 == 11
DW_EH_PE_sdata8 == 12
DW_EH_PE_pcrel == 16
DW_EH_PE_textrel == 32
DW_EH_PE_datarel == 48
DW_EH_PE_funcrel == 64
DW_EH_PE_aligned == 80
DW_EH_PE_indirect == 128
DW_EH_PE_omit == 255

\* DwEhPe::format: the low nibble.
format(encoding) == encoding % 16

\* DwEhPe::application: bits 4..6.
application(encoding) == ((encoding \div 16) % 8) * 16

\* DwEhPe::is_indirect: bit 7.
is_indirect(encoding) == encoding \div 128 = 1

\* DwEhPe::is_valid_encoding: the allow-list.  DW_EH_PE_omit is on it:
\* parse_encoded_pointer tests for it only after the validity check.
is_valid_encoding(encoding) ==
    \/ encoding = DW_EH_PE_omit
    \/ /\ format(encoding) \in
            {DW_EH_PE_absptr, DW_EH_PE_uleb128, DW_EH_PE_udata2,
             DW_EH_PE_udata4, DW_EH_PE_udata8, DW_EH_PE_sleb128,
             DW_EH_PE_sdata2, DW_EH_PE_sdata4, DW_EH_PE_sdata8}
       /\ application(encoding) \in
            {DW_EH_PE_absptr, DW_EH_PE_pcrel, DW_EH_PE_textrel,
             DW_EH_PE_datarel, DW_EH_PE_funcrel, DW_EH_PE_aligned}

\* The descriptor byte handed on without the validity check.
parse_pointer_encoding_unchecked(c) == parse_u8e(c)

parse_pointer_encoding(c) ==
    LET r == parse_u8e(c)
    IN  IF ~IsOk(r) THEN r
        ELSE IF is_valid_encoding(ValueOf(r)) THEN r
        ELSE Err("UnknownPointerEncoding")

\* Pointer::default
Pointer_default == [kind |-> "Direct", addr |-> U64(0)]

\* The indirection bit ignored.
Pointer_new_direct(encoding, address) == [kind |-> "Direct", addr |-> address]

\* Pointer::new
Pointer_new(encoding, address) ==
    [kind |-> IF is_indirect(encoding) THEN "Indirect" ELSE "Direct",
     addr |-> address]

\* `Ok((rest, a as u64))` for an unsigned a; a failure is passed on (try!).
AsU64(r) == IF IsOk(r) THEN Ok(r.rest, ZeroExtend(ValueOf(r))) ELSE r

\* A signed value widened as if it were unsigned.
SignedAsU64_zero_extended(r) ==
    IF IsOk(r) THEN Ok(r.rest, ZeroExtend(ValueOf(r))) ELSE r

\* `Ok((rest, a as u64))` for a signed a.
SignedAsU64(r) == IF IsOk(r) THEN Ok(r.rest, SignExtend(ValueOf(r))) ELSE r

\* parse_encoded_pointer::parse_data
parse_data(e, encoding, address_size, c) ==
    IF ~is_valid_encoding(encoding) THEN Panic("debug_assert")
    ELSE CASE format(encoding) = DW_EH_PE_absptr ->
                parse_address(e, c, address_size)
           [] format(encoding) = DW_EH_PE_uleb128 -> parse_unsigned_lebe(c)
           [] format(encoding) = DW_EH_PE_udata2 -> AsU64(parse_u16(e, c))
           [] format(encoding) = DW_EH_PE_udata4 -> AsU64(parse_u32(e, c))
           [] format(encoding) = DW_EH_PE_udata8 -> AsU64(parse_u64(e, c))
           [] format(encoding) = DW_EH_PE_sleb128 ->
                SignedAsU64(parse_signed_lebe(c))
           [] format(encoding) = DW_EH_PE_sdata2 ->
                SignedAsU64(parse_i16(e, c))
           [] format(encoding) = DW_EH_PE_sdata4 ->
                SignedAsU64(parse_i32(e, c))
           [] format(encoding) = DW_EH_PE_sdata8 ->
                SignedAsU64(parse_i64(e, c))
           [] OTHER -> Panic("unreachable")

\* `input.as_ptr() as usize - section.as_ptr() as usize`, then `as u64`:
\* the values the subtraction can produce.  When the input starts before
\* the section the subtraction overflows: a build with overflow checks
\* panics (None), one without wraps modulo 2^64 or, on a 32-bit target,
\* modulo 2^32.
offset_from_section(sec, c) ==
    IF c.lo >= sec.lo THEN {Some(U64(c.lo - sec.lo))}
    ELSE {None,
          Some([k \in 1..8 |-> IF k = 1 THEN 256 - (sec.lo - c.lo) ELSE 255]),
          Some([k \in 1..8 |-> IF k = 1 THEN 256 - (sec.lo - c.lo)
                               ELSE IF k <= 4 THEN 255 ELSE 0])}

\* The DW_EH_PE_absptr arm.
absptr_arm(e, encoding, address_size, c) ==
    LET r == parse_data(e, encoding, address_size, c)
    IN  IF ~IsOk(r) THEN r
        ELSE Ok(r.rest, Pointer_new(encoding, ValueOf(r)))

\* The offset taken at the end of the encoded value instead of its start.
pcrel_arm_offset_of_rest(e, encoding, b, address_size, sec, c) ==
    IF b.cfi.some
    THEN LET r == parse_data(e, encoding, address_size, c)
         IN  IF ~IsOk(r) THEN {r}
             ELSE {IF ~d.some THEN Panic("attempt to subtract with overflow")
                   ELSE Ok(r.rest,
                           Pointer_new(encoding,
                              wrapping_add(wrapping_add(b.cfi.v, d.v),
                                           ValueOf(r))))
                   : d \in offset_from_section(sec, r.rest)}
    ELSE {Err("CfiRelativePointerButCfiBaseIsUndefined")}

\* The stored value decoded before the base is looked at.
pcrel_arm_decode_first(e, encoding, b, address_size, sec, c) ==
    LET r == parse_data(e, encoding, address_size, c)
    IN  IF ~IsOk(r) THEN {r}
        ELSE IF ~b.cfi.some THEN {Err("CfiRelativePointerButCfiBaseIsUndefined")}
        ELSE {IF ~d.some THEN Panic("attempt to subtract with overflow")
              ELSE Ok(r.rest,
                      Pointer_new(encoding,
                         wrapping_add(wrapping_add(b.cfi.v, d.v), ValueOf(r))))
              : d \in offset_from_section(sec, c)}

\* The DW_EH_PE_pcrel arm: the results it can have.
pcrel_arm(e, encoding, b, address_size, sec, c) ==
    IF b.cfi.some
    THEN LET r == parse_data(e, encoding, address_size, c)
         IN  IF ~IsOk(r) THEN {r}
             ELSE {IF ~d.some THEN Panic("attempt to subtract with overflow")
                   ELSE Ok(r.rest,
                           Pointer_new(encoding,
                              wrapping_add(wrapping_add(b.cfi.v, d.v),
                                           ValueOf(r))))
                   : d \in offset_from_section(sec, c)}
    ELSE {Err("CfiRelativePointerButCfiBaseIsUndefined")}

\* The DW_EH_PE_textrel, DW_EH_PE_datarel and DW_EH_PE_funcrel arms.
textrel_arm(e, encoding, b, address_size, c) ==
    IF b.text.some
    THEN LET r == parse_data(e, encoding, address_size, c)
         IN  IF ~IsOk(r) THEN r
             ELSE Ok(r.rest,
                     Pointer_new(encoding, wrapping_add(b.text.v, ValueOf(r))))
    ELSE Err("TextRelativePointerButTextBaseIsUndefined")

\* The .data arm reading the .text base.
datarel_arm_text_base(e, encoding, b, address_size, c) ==
    IF b.text.some
    THEN LET r == parse_data(e, encoding, address_size, c)
         IN  IF ~IsOk(r) THEN r
             ELSE Ok(r.rest,
                     Pointer_new(encoding, wrapping_add(b.text.v, ValueOf(r))))
    ELSE Err("DataRelativePointerButDataBaseIsUndefined")

datarel_arm(e, encoding, b, address_size, c) ==
    IF b.data.some
    THEN LET r == parse_data(e, encoding, address_size, c)
         IN  IF ~IsOk(r) THEN r
             ELSE Ok(r.rest,
                     Pointer_new(encoding, wrapping_add(b.data.v, ValueOf(r))))
    ELSE Err("DataRelativePointerButDataBaseIsUndefined")

\* A function base that is read as zero while it is not set.
funcrel_arm_unscoped(e, encoding, b, address_size, c) ==
    LET r == parse_data(e, encoding, address_size, c)
    IN  IF ~IsOk(r) THEN r
        ELSE Ok(r.rest,
                Pointer_new(encoding,
                    wrapping_add(IF b.func.some THEN b.func.v ELSE U64(0),
                                 ValueOf(r))))

funcrel_arm(e, encoding, b, address_size, c) ==
    IF b.func.some
    THEN LET r == parse_data(e, encoding, address_size, c)
         IN  IF ~IsOk(r) THEN r
             ELSE Ok(r.rest,
                     Pointer_new(encoding, wrapping_add(b.func.v, ValueOf(r))))
    ELSE Err("FuncRelativePointerInBadContext")

\* DW_EH_PE_aligned resolved as if it were DW_EH_PE_absptr.
match_application_aligned_as_absptr(e, encoding, b, address_size, sec, c) ==
    CASE application(encoding) = DW_EH_PE_pcrel ->
            pcrel_arm(e, encoding, b, address_size, sec, c)
      [] application(encoding) = DW_EH_PE_textrel ->
            {textrel_arm(e, encoding, b, address_size, c)}
      [] application(encoding) = DW_EH_PE_datarel ->
            {datarel_arm(e, encoding, b, address_size, c)}
      [] application(encoding) = DW_EH_PE_funcrel ->
            {funcrel_arm(e, encoding, b, address_size, c)}
      [] OTHER -> {absptr_arm(e, encoding, address_size, c)}

\* `match encoding.application()`.
match_application(e, encoding, b, address_size, sec, c) ==
    CASE application(encoding) = DW_EH_PE_absptr ->
            {absptr_arm(e, encoding, address_size, c)}
      [] application(encoding) = DW_EH_PE_pcrel ->
            pcrel_arm(e, encoding, b, address_size, sec, c)
      [] application(encoding) = DW_EH_PE_textrel ->
            {textrel_arm(e, encoding, b, address_size, c)}
      [] application(encoding) = DW_EH_PE_datarel ->
            {datarel_arm(e, encoding, b, address_size, c)}
      [] application(encoding) = DW_EH_PE_funcrel ->
            {funcrel_arm(e, encoding, b, address_size, c)}
      [] application(encoding) = DW_EH_PE_aligned ->
            {Err("UnsupportedPointerEncoding")}
      [] OTHER -> {Panic("unreachable")}

\* The validity check left out.
parse_encoded_pointer_unchecked(e, encoding, b, address_size, sec, c) ==
    IF encoding = DW_EH_PE_omit
    THEN {Ok(c, [kind |-> "Direct", addr |-> U64(0)])}
    ELSE match_application(e, encoding, b, address_size, sec, c)

\* DW_EH_PE_omit decoded like any other descriptor.
parse_encoded_pointer_no_omit(e, encoding, b, address_size, sec, c) ==
    IF ~is_valid_encoding(encoding) THEN {Err("UnknownPointerEncoding")}
    ELSE match_application(e, encoding, b, address_size, sec, c)

\* parse_encoded_pointer: the results the call can have (one, unless the
\* position subtraction overflows).
parse_encoded_pointer(e, encoding, b, address_size, sec, c) ==
    IF ~is_valid_encoding(encoding) THEN {Err("UnknownPointerEncoding")}
    ELSE IF encoding = DW_EH_PE_omit
         THEN {Ok(c, [kind |-> "Direct", addr |-> U64(0)])}
         ELSE match_application(e, encoding, b, address_size, sec, c)

----------------------------------------------------------------------------
(* The inputs.                                                             *)

RECURSIVE Repeat(_, _)
Repeat(b, k) == IF k = 0 THEN <<>> ELSE <<b>> \o Repeat(b, k - 1)

RECURSIVE SeqsUpTo(_, _)
SeqsUpTo(S, n) ==
    IF n = 0 THEN {<<>>}
    ELSE LET shorter == SeqsUpTo(S, n - 1)
         IN  shorter \cup {<<b>> \o t : b \in S, t \in {u \in shorter : Len(u) = n - 1}}

\* Bytes that matter to the decoders: zero, one, the largest byte without
\* the continuation bit (sign bit 6 set), the continuation bit alone, and
\* all bits set.
FillBytes == {128, 255}
TailBytes == {0, 1, 127, 255}

\* A buffer is a run of one byte followed by a few free bytes.
Buffers ==
    {Repeat(f, k) \o t : f \in FillBytes, k \in 0..MaxFill,
                         t \in SeqsUpTo(TailBytes, MaxTail)}

Endians == {"little", "big"}

\* BaseAddresses::default
BaseAddresses_default ==
    [cfi |-> None, text |-> None, data |-> None, func |-> None]

\* The last call: the function, its arguments (those it does not take at
\* their idle values), the target's pointer width where the outcome depends
\* on it, and the result.
NoCall == [op |-> "none", encoding |-> 0, address_size |-> 0,
           format |-> "none", width |-> 0, bytes |-> <<>>,
           section |-> NoBuf, input |-> NoBuf, abbrev |-> None,
           result |-> Err("")]

Call(op, c, r) == [NoCall EXCEPT !.op = op, !.input = c, !.result = r]

----------------------------------------------------------------------------
(* The abbreviation data model (types.rs).                                 *)

\* AbbreviationHasChildren: the discriminants of the enumeration.
AbbreviationHasChildren_Yes == 0
AbbreviationHasChildren_No == 1
AbbreviationHasChildren ==
    {AbbreviationHasChildren_Yes, AbbreviationHasChildren_No}

\* The tags and the attribute list the callers of the model build with.
AbbreviationTags == {"CompileUnit", "Subprogram"}
AttributeSpecification_new(name, form) == [name |-> name, form |-> form]
AttributeLists == {<<AttributeSpecification_new("Name", "String")>>}

\* Abbreviation::new without its assertion.
Abbreviation_new_unchecked(code, tag, has_children, attributes) ==
    Ok(NoBuf, [code |-> code, tag |-> tag, has_children |-> has_children,
               attributes |-> attributes])

\* Abbreviation::new: `assert!(code != 0)`, then the aggregate.
Abbreviation_new(code, tag, has_children, attributes) ==
    IF code = 0 THEN Panic("assertion failed: code != 0")
    ELSE Ok(NoBuf, [code |-> code, tag |-> tag,
                    has_children |-> has_children,
                    attributes |-> attributes])

\* Abbreviation::code
code(abbrev) == abbrev.code

\* Abbreviation::has_children
has_children(abbrev) ==
    CASE abbrev.has_children = AbbreviationHasChildren_Yes -> TRUE
      [] abbrev.has_children = AbbreviationHasChildren_No -> FALSE

\* Abbreviations::new: the empty map.
Abbreviations_new == [c \in {} |-> None]

\* The map m with the entry k -> v (VacantEntry::insert, HashMap::insert).
MapWith(m, k, v) ==
    [c \in DOMAIN m \cup {k} |-> IF c = k THEN v ELSE m[c]]

\* An insert that replaces the entry of a code that is already there.
insert_overwriting(self, abbrev) ==
    [abbrevs |-> MapWith(self, abbrev.code, abbrev), result |-> Ok(NoBuf, <<>>)]

\* Abbreviations::insert: the map after the call, and the call's result
\* (Err(()) is written Err("()")).
insert(self, abbrev) ==
    IF abbrev.code \in DOMAIN self
    THEN [abbrevs |-> self, result |-> Err("()")]
    ELSE [abbrevs |-> MapWith(self, abbrev.code, abbrev),
          result |-> Ok(NoBuf, <<>>)]

\* The threads that call into the core, and a thread that is in no call.
Threads == {"a", "b"}
NotCalling == [pc |-> "idle"]
NoCalls == [t \in Threads |-> NotCalling]

----------------------------------------------------------------------------
(* The primitive decoders, called one after the other on one buffer: each  *)
(* call is given the caller's cursor, and the caller goes on with the      *)
(* remainder of a successful call.                                         *)

Init ==
    /\ buf \in Buffers
    /\ endian \in Endians
    /\ section = [lo |-> 0, hi |-> Len(buf)]
    /\ input = section
    /\ bases = BaseAddresses_default
    /\ last = NoCall
    /\ abbrevs = Abbreviations_new
    /\ calls = NoCalls

Decode(op, r) ==
    /\ last' = Call(op, input, r)
    /\ input' = IF IsOk(r) THEN r.rest ELSE input
    /\ UNCHANGED <<buf, endian, section, bases, abbrevs, calls>>

ParseU8 == Decode("parse_u8", parse_u8(input))
ParseI8 == Decode("parse_i8", parse_i8(input))
ParseU16 == Decode("parse_u16", parse_u16(endian, input))
ParseI16 == Decode("parse_i16", parse_i16(endian, input))
ParseU32 == Decode("parse_u32", parse_u32(endian, input))
ParseI32 == Decode("parse_i32", parse_i32(endian, input))
ParseU64 == Decode("parse_u64", parse_u64(endian, input))
ParseI64 == Decode("parse_i64", parse_i64(endian, input))
ParseU32AsU64 == Decode("parse_u32_as_u64", parse_u32_as_u64(endian, input))

Next ==
    \/ ParseU8 \/ ParseI8 \/ ParseU16 \/ ParseI16 \/ ParseU32 \/ ParseI32
    \/ ParseU64 \/ ParseI64 \/ ParseU32AsU64

Spec == Init /\ [][Next]_vars

----------------------------------------------------------------------------
(* Encoded pointers: a caller that owns the bases resolves descriptors     *)
(* against a cursor into a section.                                        *)

\* The section may start this far into the buffer, or the input cursor
\* this far into it (the input before, at or after the section start).
MaxStart == 1

\* The stored values: a run of 0xff bytes and one closing byte, and the
\* signed LEB128 encoding of -0x1111.
PointerBuffers ==
    {<<>>, <<239, 93>>}
    \cup {Repeat(255, k) \o <<t>> : k \in {0, 1, 3, 7, MaxFill - 1, MaxFill},
                                     t \in {1, 127}}

\* The address sizes a unit may declare: the supported pointer widths, and
\* with the unsupported ones.
AddressSizes == {4, 8}
AllAddressSizes == {0, 1, 2, 4, 8, 255}

CfiBase == U64(256)
TextBase == <<17, 17, 17, 17, 0, 0, 0, 0>>
DataBase == <<255, 255, 255, 255, 255, 255, 255, 255>>
FuncBases == {U64(16), <<240, 255, 255, 255, 255, 255, 255, 255>>}

\* The caller's cursors into the buffer, and the bases it was built with.
InitCaller(buffers) ==
    /\ buf \in buffers
    /\ endian \in Endians
    /\ \E s \in 0..MaxStart, i \in 0..MaxStart :
          /\ s = 0 \/ i = 0
          /\ s <= Len(buf)
          /\ i <= Len(buf)
          /\ section = [lo |-> s, hi |-> Len(buf)]
          /\ input = [lo |-> i, hi |-> Len(buf)]
    /\ \E c \in {None, Some(CfiBase)}, t \in {None, Some(TextBase)},
          d \in {None, Some(DataBase)} :
          bases = [cfi |-> c, text |-> t, data |-> d, func |-> None]
    /\ last = NoCall
    /\ abbrevs = Abbreviations_new
    /\ calls = NoCalls

InitPointer == InitCaller(PointerBuffers)

\* The frame-descriptor evaluator enters a function's scope.
SetFunc(f) ==
    /\ bases' = [bases EXCEPT !.func = Some(f)]
    /\ last' = NoCall
    /\ UNCHANGED <<buf, endian, section, input, abbrevs, calls>>

\* ... and leaves it.
ClearFunc ==
    /\ bases.func.some
    /\ bases' = [bases EXCEPT !.func = None]
    /\ last' = NoCall
    /\ UNCHANGED <<buf, endian, section, input, abbrevs, calls>>

ParseEncodedPointer(encoding, address_size) ==
    /\ \E r \in parse_encoded_pointer(endian, encoding, bases, address_size,
                                      section, input) :
          last' = [Call("parse_encoded_pointer", input, r)
                     EXCEPT !.encoding = encoding,
                            !.address_size = address_size,
                            !.section = section]
    /\ UNCHANGED <<buf, endian, section, input, bases, abbrevs, calls>>

ParsePointerEncoding ==
    /\ last = NoCall
    /\ last' = Call("parse_pointer_encoding", input, parse_pointer_encoding(input))
    /\ UNCHANGED <<buf, endian, section, input, bases, abbrevs, calls>>

\* The descriptors parse_pointer_encoding hands to its caller.
ValidEncodings == {encoding \in Byte : is_valid_encoding(encoding)}

NextPointer ==
    \/ \E f \in FuncBases : SetFunc(f)
    \/ ClearFunc
    \/ /\ last = NoCall
       /\ \E encoding \in ValidEncodings, address_size \in AddressSizes :
             ParseEncodedPointer(encoding, address_size)

SpecPointer == InitPointer /\ [][NextPointer]_vars

----------------------------------------------------------------------------
(* Every descriptor byte, valid or not, against an empty, a short and a    *)
(* long input.                                                             *)

EncodingBuffers == {<<>>, <<1>>, Repeat(255, MaxFill) \o <<1>>}

InitEncoding == InitCaller(EncodingBuffers)

NextEncoding ==
    \/ \E f \in FuncBases : SetFunc(f)
    \/ ClearFunc
    \/ /\ last = NoCall
       /\ \E encoding \in Byte, address_size \in AllAddressSizes :
             ParseEncodedPointer(encoding, address_size)

SpecEncoding == InitEncoding /\ [][NextEncoding]_vars

----------------------------------------------------------------------------
(* Descriptor bytes read from the input.                                   *)

DescriptorBuffers ==
    {<<>>} \cup {<<b>> \o t : b \in Byte, t \in {<<>>, <<1, 2, 3, 4>>}}

InitDescriptor ==
    /\ buf \in DescriptorBuffers
    /\ endian \in Endians
    /\ section = [lo |-> 0, hi |-> Len(buf)]
    /\ input = section
    /\ bases = BaseAddresses_default
    /\ last = NoCall
    /\ abbrevs = Abbreviations_new
    /\ calls = NoCalls

NextDescriptor == ParsePointerEncoding

SpecDescriptor == InitDescriptor /\ [][NextDescriptor]_vars

----------------------------------------------------------------------------
(* Properties of the fixed-width decoders.                                 *)

\* The declared width, in bytes, of each fixed-width primitive.
WidthOf ==
    [op \in {"parse_u8", "parse_i8", "parse_u16", "parse_i16", "parse_u32",
             "parse_i32", "parse_u64", "parse_i64", "parse_u32_as_u64"} |->
        CASE op \in {"parse_u8", "parse_i8"} -> 1
          [] op \in {"parse_u16", "parse_i16"} -> 2
          [] op \in {"parse_u32", "parse_i32", "parse_u32_as_u64"} -> 4
          [] OTHER -> 8]

\* C1: a fixed-width decoder given fewer bytes than its width fails with
\* UnexpectedEof, returns no remainder and leaves the caller's cursor where
\* it was; given at least its width it succeeds, and the remainder is the
\* input without its first width bytes.
C1_FixedWidth ==
    last.op \in DOMAIN WidthOf =>
        LET w == WidthOf[last.op]
        IN  IF len(last.input) < w
            THEN /\ IsErr(last.result, "UnexpectedEof")
                 /\ last.result.rest = NoBuf
                 /\ input = last.input
            ELSE /\ IsOk(last.result)
                 /\ last.result.rest.hi = last.input.hi
                 /\ last.result.rest.lo = last.input.lo + w
                 /\ bytes(last.result.rest)
                      = SubSeq(bytes(last.input), w + 1, len(last.input))
                 /\ input = last.result.rest

\* A four-byte decoder was given three bytes, after an earlier call had
\* consumed a part of the buffer.
C1_Witness ==
    /\ last.op = "parse_u32"
    /\ last.input.lo > 0
    /\ len(last.input) = 3
    /\ IsErr(last.result, "UnexpectedEof")

----------------------------------------------------------------------------
(* Properties of the pointer-encoding resolver.                            *)

IsPointerCall == last.op = "parse_encoded_pointer"

\* The descriptor's value-format nibble and application bits are on the
\* allow-lists (nine formats; absptr, pcrel, textrel, datarel, funcrel,
\* aligned).
AllowListed(b) ==
    /\ b % 16 \in {0, 1, 2, 3, 4, 9, 10, 11, 12}
    /\ (b \div 16) % 8 \in 0..5

\* The application of a descriptor, by name.
ApplicationOf(b) ==
    CASE (b \div 16) % 8 = 0 -> "absptr"
      [] (b \div 16) % 8 = 1 -> "pcrel"
      [] (b \div 16) % 8 = 2 -> "textrel"
      [] (b \div 16) % 8 = 3 -> "datarel"
      [] (b \div 16) % 8 = 4 -> "funcrel"
      [] (b \div 16) % 8 = 5 -> "aligned"
      [] OTHER -> "none"

\* x + y modulo 2^64, added in four 16-bit limbs.
Mod64Sum(x, y) ==
    LET s1 == (x[1] + 256 * x[2]) + (y[1] + 256 * y[2])
        s2 == (x[3] + 256 * x[4]) + (y[3] + 256 * y[4]) + s1 \div 65536
        s3 == (x[5] + 256 * x[6]) + (y[5] + 256 * y[6]) + s2 \div 65536
        s4 == (x[7] + 256 * x[8]) + (y[7] + 256 * y[8]) + s3 \div 65536
    IN  <<s1 % 256, (s1 \div 256) % 256, s2 % 256, (s2 \div 256) % 256,
          s3 % 256, (s3 \div 256) % 256, s4 % 256, (s4 \div 256) % 256>>

\* The stored quantity of the last call, as parse_data decodes it.
Stored == parse_data(endian, last.encoding, last.address_size, last.input)

\* The distance from the section start to the input, when there is one.
Distance == last.input.lo - last.section.lo

\* C2: parse_encoded_pointer returns Ok or one Error kind on every input,
\* the input cursor before the section start included: it never panics and
\* the position subtraction never underflows.
C2_FailsCleanly ==
    IsPointerCall =>
        /\ last.result.kind \in {"Ok", "Err"}
        /\ (ApplicationOf(last.encoding) = "pcrel" /\ IsOk(last.result)
              /\ last.encoding # 255)
              => Distance >= 0

\* C3: a descriptor that is not a valid encoding fails with
\* UnknownPointerEncoding whatever the input, the address size and the
\* bases are, and nothing is consumed.
C3_UnknownEncodingFirst ==
    (IsPointerCall /\ ~AllowListed(last.encoding) /\ last.encoding # 255) =>
        /\ IsErr(last.result, "UnknownPointerEncoding")
        /\ input = last.input

\* An invalid descriptor with an absent base, an unsupported address size
\* and an empty input: three other errors wait behind the first.
C3_Witness ==
    /\ IsPointerCall
    /\ last.encoding = 29
    /\ ~bases.cfi.some
    /\ last.address_size = 0
    /\ len(last.input) = 0
    /\ IsErr(last.result, "UnknownPointerEncoding")

\* C4 (as stated): parse_pointer_encoding on a non-empty input accepts the
\* allow-listed bytes and rejects every other byte.
C4_AllowListOnly ==
    (last.op = "parse_pointer_encoding" /\ len(last.input) > 0) =>
        LET b == at(last.input, 0)
        IN  IF AllowListed(b)
            THEN /\ IsOk(last.result)
                 /\ ValueOf(last.result) = b
                 /\ last.result.rest = range_from(last.input, 1)
            ELSE IsErr(last.result, "UnknownPointerEncoding")

\* C4 (amended): parse_pointer_encoding on a non-empty input accepts the
\* allow-listed bytes and DW_EH_PE_omit (0xff), and rejects every other
\* byte with UnknownPointerEncoding.
C4_AllowListAndOmit ==
    (last.op = "parse_pointer_encoding" /\ len(last.input) > 0) =>
        LET b == at(last.input, 0)
        IN  IF AllowListed(b) \/ b = 255
            THEN /\ IsOk(last.result)
                 /\ ValueOf(last.result) = b
                 /\ last.result.rest = range_from(last.input, 1)
            ELSE IsErr(last.result, "UnknownPointerEncoding")

\* The omit byte was read and accepted.
C4_Witness ==
    /\ last.op = "parse_pointer_encoding"
    /\ len(last.input) > 1
    /\ at(last.input, 0) = 255
    /\ IsOk(last.result)

\* C5: the omit descriptor gives Pointer::Direct(0), the Pointer default,
\* and the input cursor back, whatever the input, the address size and the
\* bases are.
C5_Omit ==
    (IsPointerCall /\ last.encoding = 255) =>
        /\ IsOk(last.result)
        /\ ValueOf(last.result).kind = "Direct"
        /\ ValueOf(last.result).addr = <<0, 0, 0, 0, 0, 0, 0, 0>>
        /\ ValueOf(last.result) = Pointer_default
        /\ last.result.rest = last.input
        /\ input = last.input

\* Omit on an empty input, with an unsupported address size and no base.
C5_Witness ==
    /\ IsPointerCall
    /\ last.encoding = 255
    /\ len(last.input) = 0
    /\ last.address_size = 255
    /\ bases = BaseAddresses_default
    /\ IsOk(last.result)

\* C6: a pc-relative descriptor with the CFI base present and a stored
\* quantity q that decodes gives the address cfi + d + q modulo 2^64, d the
\* distance from the section start to the input at the call, and the
\* remainder that follows the stored quantity.
C6_PcRel ==
    (IsPointerCall /\ AllowListed(last.encoding)
        /\ ApplicationOf(last.encoding) = "pcrel"
        /\ bases.cfi.some /\ Distance >= 0 /\ IsOk(Stored)) =>
        /\ IsOk(last.result)
        /\ ValueOf(last.result).addr
             = Mod64Sum(Mod64Sum(bases.cfi.v, <<Distance, 0, 0, 0, 0, 0, 0, 0>>),
                        ValueOf(Stored))
        /\ last.result.rest = Stored.rest

\* A pc-relative pointer one byte into the section whose sum wraps.
C6_Witness ==
    /\ IsPointerCall
    /\ last.encoding = 28
    /\ bases.cfi.some
    /\ Distance = 1
    /\ IsOk(last.result)
    /\ ValueOf(last.result).addr = <<0, 1, 0, 0, 0, 0, 0, 0>>

\* The base an application selects.
SelectedBase ==
    CASE ApplicationOf(last.encoding) = "textrel" -> bases.text
      [] ApplicationOf(last.encoding) = "datarel" -> bases.data
      [] ApplicationOf(last.encoding) = "funcrel" -> bases.func
      [] OTHER -> None

\* C7: with its own base b present and a stored quantity q that decodes, a
\* text-, data- or function-relative descriptor gives b + q modulo 2^64 and
\* an absolute one gives q; no other base and no section offset enters the
\* result.
C7_BasePlusQuantity ==
    (IsPointerCall /\ AllowListed(last.encoding) /\ IsOk(Stored)) =>
        /\ (ApplicationOf(last.encoding) \in {"textrel", "datarel", "funcrel"}
              /\ SelectedBase.some) =>
              /\ IsOk(last.result)
              /\ ValueOf(last.result).addr
                   = Mod64Sum(SelectedBase.v, ValueOf(Stored))
              /\ last.result.rest = Stored.rest
        /\ ApplicationOf(last.encoding) = "absptr" =>
              /\ IsOk(last.result)
              /\ ValueOf(last.result).addr = ValueOf(Stored)
              /\ last.result.rest = Stored.rest

\* A data-relative pointer resolved while the other three bases are set
\* and the input is not at the section start.
C7_Witness ==
    /\ IsPointerCall
    /\ last.encoding = 51
    /\ bases.cfi.some /\ bases.text.some /\ bases.data.some /\ bases.func.some
    /\ Distance = 1
    /\ IsOk(last.result)

\* C8: a valid descriptor other than omit whose application needs a base
\* that is absent fails with that base's own error, whatever the stored
\* bytes and the address size are.
C8_MissingBase ==
    (IsPointerCall /\ AllowListed(last.encoding)) =>
        /\ (ApplicationOf(last.encoding) = "pcrel" /\ ~bases.cfi.some)
              => IsErr(last.result, "CfiRelativePointerButCfiBaseIsUndefined")
        /\ (ApplicationOf(last.encoding) = "textrel" /\ ~bases.text.some)
              => IsErr(last.result, "TextRelativePointerButTextBaseIsUndefined")
        /\ (ApplicationOf(last.encoding) = "datarel" /\ ~bases.data.some)
              => IsErr(last.result, "DataRelativePointerButDataBaseIsUndefined")
        /\ (ApplicationOf(last.encoding) = "funcrel" /\ ~bases.func.some)
              => IsErr(last.result, "FuncRelativePointerInBadContext")

\* A pc-relative absptr descriptor without the CFI base, on an empty input
\* and with an unsupported address size.
C8_Witness ==
    /\ IsPointerCall
    /\ last.encoding = 16
    /\ ~bases.cfi.some
    /\ len(last.input) = 0
    /\ last.address_size = 0
    /\ IsErr(last.result, "CfiRelativePointerButCfiBaseIsUndefined")

\* Bit j of a byte.
Bit(b, j) == (b \div (2 ^ j)) % 2

\* The 64-bit two's complement of an integer of at most 32 bits.
TwosComplement64(n) ==
    IF n >= 0
    THEN [k \in 1..8 |-> IF k <= 4 THEN (n \div (256 ^ (k - 1))) % 256 ELSE 0]
    ELSE [k \in 1..8 |->
            IF k <= 4 THEN 255 - ((((0 - n) - 1) \div (256 ^ (k - 1))) % 256)
            ELSE 255]

\* Byte k (from 0, least significant first) of a fixed-width stored value
\* of w bytes.
StoredByte(k, w) ==
    IF endian = "little" THEN at(last.input, k) ELSE at(last.input, w - 1 - k)

\* The index of the byte that closes the LEB128 value at the input.
LebLast ==
    CHOOSE i \in 0..(len(last.input) - 1) :
        /\ at(last.input, i) < 128
        /\ \A j \in 0..(i - 1) : at(last.input, j) >= 128

\* Bit j of the stored signed LEB128 value: the 7-bit groups in order, and
\* above them copies of the sign bit of the last group.
SlebBit(j) ==
    IF j < 7 * (LebLast + 1)
    THEN Bit(at(last.input, j \div 7), j % 7)
    ELSE Bit(at(last.input, LebLast), 6)

\* The stored signed value v of the last call, as its 64-bit two's
\* complement.
SignedValue ==
    CASE last.encoding % 16 = 9 ->
            [k \in 1..8 |->
                SlebBit(8 * (k - 1)) + 2 * SlebBit(8 * (k - 1) + 1)
                + 4 * SlebBit(8 * (k - 1) + 2) + 8 * SlebBit(8 * (k - 1) + 3)
                + 16 * SlebBit(8 * (k - 1) + 4) + 32 * SlebBit(8 * (k - 1) + 5)
                + 64 * SlebBit(8 * (k - 1) + 6) + 128 * SlebBit(8 * (k - 1) + 7)]
      [] last.encoding % 16 = 10 ->
            LET n == StoredByte(0, 2) + 256 * StoredByte(1, 2)
            IN  TwosComplement64(IF n >= 32768 THEN n - 65536 ELSE n)
      [] last.encoding % 16 = 11 ->
            LET top == StoredByte(3, 4)
            IN  TwosComplement64(
                    StoredByte(0, 4) + 256 * StoredByte(1, 4)
                    + 65536 * StoredByte(2, 4)
                    + 16777216 * (IF top >= 128 THEN top - 256 ELSE top))
      [] last.encoding % 16 = 12 -> [k \in 1..8 |-> StoredByte(k - 1, 8)]

\* The base a relative application adds to: its own base, and for the
\* pc-relative one the CFI base moved by the distance into the section.
EffectiveBase ==
    IF ApplicationOf(last.encoding) = "pcrel"
    THEN IF bases.cfi.some /\ Distance >= 0
         THEN Some(Mod64Sum(bases.cfi.v, <<Distance, 0, 0, 0, 0, 0, 0, 0>>))
         ELSE None
    ELSE SelectedBase

\* C9: a stored signed value v (sleb128, sdata2, sdata4, sdata8) is
\* sign-extended to 64 bits: the absolute application gives v modulo 2^64
\* and a relative one with base b gives b + v modulo 2^64, without an
\* overflow error.
C9_SignExtended ==
    (IsPointerCall /\ AllowListed(last.encoding)
        /\ last.encoding % 16 \in {9, 10, 11, 12} /\ IsOk(Stored)) =>
        /\ ApplicationOf(last.encoding) = "absptr" =>
              /\ IsOk(last.result)
              /\ ValueOf(last.result).addr = SignedValue
        /\ (ApplicationOf(last.encoding)
                \in {"pcrel", "textrel", "datarel", "funcrel"}
              /\ EffectiveBase.some) =>
              /\ IsOk(last.result)
              /\ ValueOf(last.result).addr
                   = Mod64Sum(EffectiveBase.v, SignedValue)

\* Base 0x11111111 and the stored sleb128 value -0x1111 give 0x11110000.
C9_Witness ==
    /\ IsPointerCall
    /\ last.encoding = 41
    /\ bytes(last.input) = <<239, 93>>
    /\ bases.text = Some(<<17, 17, 17, 17, 0, 0, 0, 0>>)
    /\ SignedValue = <<239, 238, 255, 255, 255, 255, 255, 255>>
    /\ IsOk(last.result)
    /\ ValueOf(last.result).addr = <<0, 0, 17, 17, 0, 0, 0, 0>>

\* C10: a successful call with a valid descriptor other than omit gives
\* Indirect(a) if bit 0x80 of the descriptor is set and Direct(a) if not,
\* and a and the remainder are those of the same call with the bit
\* cleared.
C10_IndirectBit ==
    (IsPointerCall /\ AllowListed(last.encoding) /\ IsOk(last.result)) =>
        /\ ValueOf(last.result).kind
             = (IF last.encoding >= 128 THEN "Indirect" ELSE "Direct")
        /\ \E r \in parse_encoded_pointer(endian, last.encoding % 128, bases,
                                          last.address_size, last.section,
                                          last.input) :
              /\ IsOk(r)
              /\ ValueOf(r).addr = ValueOf(last.result).addr
              /\ r.rest = last.result.rest

\* An indirect function-relative pointer was resolved.
C10_Witness ==
    /\ IsPointerCall
    /\ last.encoding = 192
    /\ last.address_size = 8
    /\ len(last.input) >= 8
    /\ IsOk(last.result)
    /\ ValueOf(last.result).kind = "Indirect"

\* C11: a valid descriptor whose application is DW_EH_PE_aligned (0x50),
\* with any value format and with or without the indirection bit, fails
\* with UnsupportedPointerEncoding whatever the input, the address size and
\* the bases are.
C11_AlignedUnsupported ==
    (IsPointerCall /\ AllowListed(last.encoding)
        /\ ApplicationOf(last.encoding) = "aligned") =>
        /\ IsErr(last.result, "UnsupportedPointerEncoding")
        /\ input = last.input

\* An indirect aligned sdata8 descriptor on a long input, every base set.
C11_Witness ==
    /\ IsPointerCall
    /\ last.encoding = 220
    /\ len(last.input) >= 8
    /\ last.address_size = 8
    /\ bases.cfi.some /\ bases.text.some /\ bases.data.some /\ bases.func.some
    /\ IsErr(last.result, "UnsupportedPointerEncoding")

----------------------------------------------------------------------------
(* The initial length of a unit header.                                    *)

\* x < y for two u64 values, compared from the most significant byte down.
RECURSIVE u64_lt_from(_, _, _)
u64_lt_from(x, y, k) ==
    IF k = 0 THEN FALSE
    ELSE IF x[k] # y[k] THEN x[k] < y[k]
    ELSE u64_lt_from(x, y, k - 1)

u64_lt(x, y) == u64_lt_from(x, y, 8)

\* 0xfffffff0
MAX_DWARF_32_UNIT_LENGTH == <<240, 255, 255, 255, 0, 0, 0, 0>>

\* 0xffffffff
DWARF_64_INITIAL_UNIT_LENGTH == <<255, 255, 255, 255, 0, 0, 0, 0>>

\* The largest 32-bit length counted among the plain lengths.
parse_initial_length_inclusive(e, c) ==
    LET r == parse_u32_as_u64(e, c)
    IN  IF ~IsOk(r) THEN r
        ELSE IF ~u64_lt(MAX_DWARF_32_UNIT_LENGTH, ValueOf(r))
        THEN Ok(r.rest, [length |-> ValueOf(r), format |-> "Dwarf32"])
        ELSE IF ValueOf(r) = DWARF_64_INITIAL_UNIT_LENGTH
        THEN LET r2 == parse_u64(e, r.rest)
             IN  IF ~IsOk(r2) THEN r2
                 ELSE Ok(r2.rest, [length |-> ValueOf(r2), format |-> "Dwarf64"])
        ELSE Err("UnknownReservedLength")

\* A short 64-bit continuation reported as a format error.
parse_initial_length_short_is_reserved(e, c) ==
    LET r == parse_u32_as_u64(e, c)
    IN  IF ~IsOk(r) THEN r
        ELSE IF u64_lt(ValueOf(r), MAX_DWARF_32_UNIT_LENGTH)
        THEN Ok(r.rest, [length |-> ValueOf(r), format |-> "Dwarf32"])
        ELSE IF ValueOf(r) = DWARF_64_INITIAL_UNIT_LENGTH /\ len(r.rest) >= 8
        THEN LET r2 == parse_u64(e, r.rest)
             IN  Ok(r2.rest, [length |-> ValueOf(r2), format |-> "Dwarf64"])
        ELSE Err("UnknownReservedLength")

parse_initial_length(e, c) ==
    LET r == parse_u32_as_u64(e, c)
    IN  IF ~IsOk(r) THEN r
        ELSE IF u64_lt(ValueOf(r), MAX_DWARF_32_UNIT_LENGTH)
        THEN Ok(r.rest, [length |-> ValueOf(r), format |-> "Dwarf32"])
        ELSE IF ValueOf(r) = DWARF_64_INITIAL_UNIT_LENGTH
        THEN LET r2 == parse_u64(e, r.rest)
             IN  IF ~IsOk(r2) THEN r2
                 ELSE Ok(r2.rest, [length |-> ValueOf(r2), format |-> "Dwarf64"])
        ELSE Err("UnknownReservedLength")

\* Bytes around the reserved range 0xfffffff0..0xffffffff.
LengthBytes == {0, 239, 240, 254, 255}

\* A length word, whole or cut short, and what follows it.
LengthBuffers ==
    {w \o Repeat(f, k) : w \in SeqsUpTo(LengthBytes, 4), f \in {1, 255},
                         k \in {0, 1, 7, 8, MaxFill}}

InitLength ==
    /\ buf \in LengthBuffers
    /\ endian \in Endians
    /\ section = [lo |-> 0, hi |-> Len(buf)]
    /\ input = section
    /\ bases = BaseAddresses_default
    /\ last = NoCall
    /\ abbrevs = Abbreviations_new
    /\ calls = NoCalls

ParseInitialLength ==
    Decode("parse_initial_length", parse_initial_length(endian, input))

NextLength == ParseInitialLength

SpecLength == InitLength /\ [][NextLength]_vars

\* The two 16-bit halves of the 32-bit word at the input of the last call.
WordLow == StoredByte(0, 4) + 256 * StoredByte(1, 4)
WordHigh == StoredByte(2, 4) + 256 * StoredByte(3, 4)

\* The 8-byte value that follows the word, least significant byte first.
Following ==
    [k \in 1..8 |-> IF endian = "little" THEN at(last.input, 3 + k)
                    ELSE at(last.input, 12 - k)]

C12_WitnessReserved ==
    /\ last.op = "parse_initial_length"
    /\ len(last.input) >= 4
    /\ WordHigh = 65535 /\ WordLow = 65520
    /\ IsErr(last.result, "UnknownReservedLength")

\* C13: parse_initial_length fails with UnexpectedEof, and no other kind,
\* when fewer than 4 bytes are left or the word is the escape marker and
\* fewer than 8 bytes follow it; no remainder is returned and the caller's
\* cursor stays where it was.
C13_InitialLengthEof ==
    (last.op = "parse_initial_length"
        /\ \/ len(last.input) < 4
           \/ /\ len(last.input) < 12
              /\ WordHigh = 65535 /\ WordLow = 65535) =>
        /\ IsErr(last.result, "UnexpectedEof")
        /\ last.result.rest = NoBuf
        /\ input = last.input

\* The escape marker with seven bytes after it.
C13_Witness ==
    /\ last.op = "parse_initial_length"
    /\ len(last.input) = 11
    /\ WordHigh = 65535 /\ WordLow = 65535
    /\ IsErr(last.result, "UnexpectedEof")

----------------------------------------------------------------------------
(* LEB128 values: encoded, then decoded.                                   *)

\* Bit i (from 0) of a u64; `above` stands for the bits past bit 63.
BitOfU64(v, i, above) ==
    IF i >= 64 THEN above ELSE (v[(i \div 8) + 1] \div (2 ^ (i % 8))) % 2

\* The 7-bit group g (from 0) of a u64.
Group(v, g, above) ==
    BitOfU64(v, 7 * g, above) + 2 * BitOfU64(v, 7 * g + 1, above)
    + 4 * BitOfU64(v, 7 * g + 2, above) + 8 * BitOfU64(v, 7 * g + 3, above)
    + 16 * BitOfU64(v, 7 * g + 4, above) + 32 * BitOfU64(v, 7 * g + 5, above)
    + 64 * BitOfU64(v, 7 * g + 6, above)

\* n groups, every one but the last with the continuation bit.
Groups(v, n, above) ==
    [g \in 1..n |-> Group(v, g - 1, above) + (IF g < n THEN 128 ELSE 0)]

\* Section::uleb: the standard unsigned LEB128 encoding of a u64, the
\* fewest groups that hold every set bit.
uleb(v) ==
    LET n == CHOOSE n \in 1..10 :
                 /\ \A i \in (7 * n)..63 : BitOfU64(v, i, 0) = 0
                 /\ \A m \in 1..(n - 1) :
                       \E i \in (7 * m)..63 : BitOfU64(v, i, 0) = 1
    IN  Groups(v, n, 0)

\* Section::sleb: the standard signed LEB128 encoding of an i64 (given as
\* its two's complement), the fewest groups whose top bit is the sign and
\* above which every bit is the sign.
sleb(v) ==
    LET sign == BitOfU64(v, 63, 0)
        n == CHOOSE n \in 1..10 :
                 /\ \A i \in (7 * n - 1)..63 : BitOfU64(v, i, sign) = sign
                 /\ \A m \in 1..(n - 1) :
                       \E i \in (7 * m - 1)..63 : BitOfU64(v, i, sign) # sign
    IN  Groups(v, n, sign)

\* 64-bit values: a few low bytes under a run of 0x00 or 0xff, and the
\* values at the top of the range.
LebValues ==
    {low \o Repeat(f, 8 - Len(low)) :
        low \in SeqsUpTo({0, 1, 63, 64, 127, 128, 255}, 2), f \in {0, 255}}
    \cup {Repeat(f, 7) \o <<t>> : f \in {0, 255},
                                  t \in {1, 63, 64, 127, 128, 191, 192, 254}}

\* The encodings of the values.
UlebOf == [v \in LebValues |-> uleb(v)]
SlebOf == [v \in LebValues |-> sleb(v)]

\* What may follow an encoded value.
LebTails == {<<>>, <<0>>, <<128>>, <<1, 2, 3, 4>>}

\* Encoded values with something after them, and the byte runs of Buffers:
\* values cut short, overlong and malformed ones.
LebBuffers ==
    Buffers
    \cup {UlebOf[v] \o t : v \in LebValues, t \in LebTails}
    \cup {SlebOf[v] \o t : v \in LebValues, t \in LebTails}

InitLeb ==
    /\ buf \in LebBuffers
    /\ endian \in Endians
    /\ section = [lo |-> 0, hi |-> Len(buf)]
    /\ input = section
    /\ bases = BaseAddresses_default
    /\ last = NoCall
    /\ abbrevs = Abbreviations_new
    /\ calls = NoCalls

\* A narrowing that keeps the low byte without looking at the rest.
u64_to_u8_truncating(x) == Ok(NoBuf, x[1])

\* u64_to_u8: `x as u8` and back.
u64_to_u8(x) ==
    IF ZeroExtend(<<x[1]>>) = x THEN Ok(NoBuf, x[1])
    ELSE Err("CannotFitInU8")

parse_unsigned_leb_as_u8e(c) ==
    LET r == parse_unsigned_leb(c)
    IN  IF ~IsOk(r) THEN r
        ELSE LET value == u64_to_u8(ValueOf(r))
             IN  IF ~IsOk(value) THEN value
                 ELSE Ok(r.rest, ValueOf(value))

ParseUnsignedLeb == Decode("parse_unsigned_leb", parse_unsigned_leb(input))
ParseSignedLeb == Decode("parse_signed_leb", parse_signed_leb(input))
ParseUnsignedLebAsU8e ==
    Decode("parse_unsigned_leb_as_u8e", parse_unsigned_leb_as_u8e(input))

NextLeb == ParseUnsignedLeb \/ ParseSignedLeb \/ ParseUnsignedLebAsU8e

SpecLeb == InitLeb /\ [][NextLeb]_vars

\* The bytes at the cursor start with p.
StartsWith(c, p) ==
    /\ len(c) >= Len(p)
    /\ \A k \in 1..Len(p) : at(c, k - 1) = p[k]

\* C14: parse_unsigned_leb on the unsigned LEB128 encoding of a u64 v and
\* parse_signed_leb on the signed encoding of an i64 v, whatever bytes
\* follow the encoding, return v and exactly the bytes that follow.
C14_LebRoundTrip ==
    /\ last.op = "parse_unsigned_leb" =>
          \A v \in LebValues :
              StartsWith(last.input, UlebOf[v]) =>
                  /\ IsOk(last.result)
                  /\ ValueOf(last.result) = v
                  /\ last.result.rest = range_from(last.input, Len(UlebOf[v]))
    /\ last.op = "parse_signed_leb" =>
          \A v \in LebValues :
              StartsWith(last.input, SlebOf[v]) =>
                  /\ IsOk(last.result)
                  /\ ValueOf(last.result) = v
                  /\ last.result.rest = range_from(last.input, Len(SlebOf[v]))

\* i64::MIN, ten groups long, decoded with four bytes left over.
C14_Witness ==
    /\ last.op = "parse_signed_leb"
    /\ bytes(last.input)
         = <<128, 128, 128, 128, 128, 128, 128, 128, 128, 127, 1, 2, 3, 4>>
    /\ IsOk(last.result)
    /\ ValueOf(last.result) = <<0, 0, 0, 0, 0, 0, 0, 128>>
    /\ bytes(last.result.rest) = <<1, 2, 3, 4>>

\* No byte at the cursor of the last call ends a LEB128 value.
Unterminated == \A k \in 0..(len(last.input) - 1) : at(last.input, k) >= 128

----------------------------------------------------------------------------
(* Addresses of every declared size.                                       *)

\* The sizes a unit header may declare: the four supported ones, zero, the
\* sizes between them and the largest byte.
DeclaredSizes == {0, 1, 2, 3, 4, 5, 7, 8, 9, 255}

ParseAddress(address_size) ==
    LET r == parse_address(endian, input, address_size)
    IN  /\ last' = [Call("parse_address", input, r)
                      EXCEPT !.address_size = address_size]
        /\ input' = IF IsOk(r) THEN r.rest ELSE input
        /\ UNCHANGED <<buf, endian, section, bases, abbrevs, calls>>

NextAddress == \E address_size \in DeclaredSizes : ParseAddress(address_size)

SpecAddress == Init /\ [][NextAddress]_vars

\* C16: parse_address with address_size in {1, 2, 4, 8} and at least that
\* many bytes consumes address_size bytes and returns their unsigned value
\* in the cursor's byte order, zero-extended; with any other address_size
\* it fails with UnsupportedAddressSize(address_size) whatever the length
\* of the input.
C16_ParseAddress ==
    last.op = "parse_address" =>
        IF last.address_size \in {1, 2, 4, 8}
        THEN len(last.input) >= last.address_size =>
                /\ IsOk(last.result)
                /\ last.result.rest = range_from(last.input, last.address_size)
                /\ ValueOf(last.result)
                     = [k \in 1..8 |->
                          IF k <= last.address_size
                          THEN StoredByte(k - 1, last.address_size) ELSE 0]
        ELSE /\ IsErr(last.result, "UnsupportedAddressSize")
             /\ last.result.arg = last.address_size

----------------------------------------------------------------------------
(* Format words and offsets.                                               *)

\* Format
Formats == {"Dwarf32", "Dwarf64"}

\* The width in bits of usize on the targets the crate is built for.
TargetWidths == {32, 64}

\* `v as usize` for a u64 v, kept as a u64: the bits above the target's
\* width are dropped.
as_usize(width, v) == [k \in 1..8 |-> IF 8 * k <= width THEN v[k] ELSE 0]

\* A conversion that keeps the low bits without looking at the rest.
u64_to_offset_truncating(width, offset64) == Ok(NoBuf, as_usize(width, offset64))

u64_to_offset(width, offset64) ==
    LET offset == as_usize(width, offset64)
    IN  IF offset = offset64 THEN Ok(NoBuf, offset)
        ELSE Err("UnsupportedOffset")

parse_word(e, c, word_format) ==
    IF word_format = "Dwarf32" THEN parse_u32_as_u64(e, c) ELSE parse_u64(e, c)

parse_offset(width, e, c, word_format) ==
    LET r == parse_word(e, c, word_format)
    IN  IF ~IsOk(r) THEN r
        ELSE LET offset == u64_to_offset(width, ValueOf(r))
             IN  IF ~IsOk(offset) THEN offset
                 ELSE Ok(r.rest, ValueOf(offset))

\* Words whose low and high halves are zero, one or all ones, whole or cut
\* short, with two bytes after them: 2^32 - 1 and 2^32 are among them in
\* both byte orders.
WordBuffers ==
    {SubSeq(Repeat(x, 3) \o <<a, b>> \o Repeat(y, 3) \o <<1, 2>>, 1, n) :
        x \in {0, 1, 255}, a \in {0, 1, 255}, b \in {0, 1, 255},
        y \in {0, 1, 255}, n \in 0..10}

InitWord ==
    /\ buf \in WordBuffers
    /\ endian \in Endians
    /\ section = [lo |-> 0, hi |-> Len(buf)]
    /\ input = section
    /\ bases = BaseAddresses_default
    /\ last = NoCall
    /\ abbrevs = Abbreviations_new
    /\ calls = NoCalls

ParseWord(word_format) ==
    LET r == parse_word(endian, input, word_format)
    IN  /\ last' = [Call("parse_word", input, r) EXCEPT !.format = word_format]
        /\ input' = IF IsOk(r) THEN r.rest ELSE input
        /\ UNCHANGED <<buf, endian, section, bases, abbrevs, calls>>

ParseOffset(width, word_format) ==
    LET r == parse_offset(width, endian, input, word_format)
    IN  /\ last' = [Call("parse_offset", input, r)
                      EXCEPT !.format = word_format, !.width = width]
        /\ input' = IF IsOk(r) THEN r.rest ELSE input
        /\ UNCHANGED <<buf, endian, section, bases, abbrevs, calls>>

NextWord ==
    \/ \E word_format \in Formats : ParseWord(word_format)
    \/ \E width \in TargetWidths, word_format \in Formats :
          ParseOffset(width, word_format)

SpecWord == InitWord /\ [][NextWord]_vars

\* The number of bytes of a word of the last call's format.
WordSize == IF last.format = "Dwarf32" THEN 4 ELSE 8

\* The word at the input of the last call, zero-extended.
WordAtInput ==
    [k \in 1..8 |-> IF k <= WordSize THEN StoredByte(k - 1, WordSize) ELSE 0]

\* The word is below 2^W, W the width of the target of the last call.
WordFits ==
    \A k \in 1..WordSize : 8 * k > last.width => StoredByte(k - 1, WordSize) = 0

\* C17: parse_word reads 4 bytes zero-extended under Dwarf32 and 8 bytes
\* under Dwarf64 and fails with UnexpectedEof if fewer are left;
\* parse_offset gives the same remainder and value when the word is below
\* 2^W, W the target's offset width, and fails with UnsupportedOffset
\* exactly when the word was read and is 2^W or more.
C17_WordAndOffset ==
    /\ last.op = "parse_word" =>
          IF len(last.input) < WordSize
          THEN IsErr(last.result, "UnexpectedEof")
          ELSE /\ IsOk(last.result)
               /\ last.result.rest = range_from(last.input, WordSize)
               /\ ValueOf(last.result) = WordAtInput
               /\ last.format = "Dwarf32" =>
                     \A k \in 5..8 : ValueOf(last.result)[k] = 0
    /\ last.op = "parse_offset" =>
          IF len(last.input) < WordSize
          THEN IsErr(last.result, "UnexpectedEof")
          ELSE IF WordFits
          THEN /\ IsOk(last.result)
               /\ last.result.rest = range_from(last.input, WordSize)
               /\ ValueOf(last.result) = WordAtInput
               /\ last.result = parse_word(endian, last.input, last.format)
          ELSE IsErr(last.result, "UnsupportedOffset")

\* The 64-bit word 2^32 on a 32-bit target.
C17_Witness ==
    /\ last.op = "parse_offset"
    /\ last.format = "Dwarf64"
    /\ last.width = 32
    /\ len(last.input) >= 8
    /\ WordAtInput = <<0, 0, 0, 0, 1, 0, 0, 0>>
    /\ IsErr(last.result, "UnsupportedOffset")

----------------------------------------------------------------------------
(* Strings and blocks cut out of the input.                                *)

\* `input.iter().position(|ch| *ch == 0)`
position_of_null(c) ==
    IF \E k \in 0..(len(c) - 1) : at(c, k) = 0
    THEN Some(CHOOSE k \in 0..(len(c) - 1) :
                 /\ at(c, k) = 0
                 /\ \A j \in 0..(k - 1) : at(c, j) # 0)
    ELSE None

\* The terminator left at the head of the remainder.
parse_null_terminated_string_keeps_null(c) ==
    LET null_idx == position_of_null(c)
    IN  IF null_idx.some
        THEN Ok(range_from(c, null_idx.v), range_to(c, null_idx.v + 1))
        ELSE Err("UnexpectedEof")

\* The value is the CStr over input[0..idx + 1], terminator included.
parse_null_terminated_string(c) ==
    LET null_idx == position_of_null(c)
    IN  IF null_idx.some
        THEN Ok(range_from(c, null_idx.v + 1), range_to(c, null_idx.v + 1))
        ELSE Err("UnexpectedEof")

\* CStr::to_bytes: the bytes of the string, without the terminator.
to_bytes(cstr) == SubSeq(buf, cstr.lo + 1, cstr.hi - 1)

\* A usize that is at most the length of a buffer, as an index.
index_of(n) == n[1] + 256 * n[2] + 65536 * n[3] + 16777216 * n[4]

\* A length check that refuses to take the whole input.
take_off_by_one(n, c) ==
    IF ~u64_lt(n, U64(len(c))) THEN Err("UnexpectedEof")
    ELSE Ok(range_from(c, index_of(n)), range_to(c, index_of(n)))

\* take(bytes, input), bytes a usize kept as a u64.
take(n, c) ==
    IF u64_lt(U64(len(c)), n) THEN Err("UnexpectedEof")
    ELSE Ok(range_from(c, index_of(n)), range_to(c, index_of(n)))

parse_length_uleb_value(width, c) ==
    LET r == parse_unsigned_leb(c)
    IN  IF ~IsOk(r) THEN r
        ELSE take(as_usize(width, ValueOf(r)), r.rest)

\* LEB128 lengths: none, small ones, one cut short, 2^32 and 2^32 + 1,
\* u64::MAX, and one that overflows.
LengthPrefixes ==
    {<<>>, <<0>>, <<1>>, <<2>>, <<3>>, <<128>>,
     <<128, 128, 128, 128, 16>>, <<129, 128, 128, 128, 16>>,
     Repeat(255, MaxFill) \o <<1>>, Repeat(255, MaxFill + 1)}

\* A length, and data with and without zero bytes after it.
SliceBuffers ==
    {l \o d : l \in LengthPrefixes, d \in SeqsUpTo({0, 7}, 3)}

\* The counts take is called with: within the buffer, past its end, and
\* the largest usize of a 32-bit target.
TakeCounts ==
    {U64(k) : k \in 0..4} \cup {U64(MaxFill + 5), <<255, 255, 255, 255, 0, 0, 0, 0>>}

InitSlice ==
    /\ buf \in SliceBuffers
    /\ endian \in Endians
    /\ section = [lo |-> 0, hi |-> Len(buf)]
    /\ input = section
    /\ bases = BaseAddresses_default
    /\ last = NoCall
    /\ abbrevs = Abbreviations_new
    /\ calls = NoCalls

ParseNullTerminatedString ==
    Decode("parse_null_terminated_string", parse_null_terminated_string(input))

Take(n) ==
    LET r == take(n, input)
    IN  /\ last' = [Call("take", input, r) EXCEPT !.bytes = n]
        /\ input' = IF IsOk(r) THEN r.rest ELSE input
        /\ UNCHANGED <<buf, endian, section, bases, abbrevs, calls>>

ParseLengthUlebValue(width) ==
    LET r == parse_length_uleb_value(width, input)
    IN  /\ last' = [Call("parse_length_uleb_value", input, r)
                      EXCEPT !.width = width]
        /\ input' = IF IsOk(r) THEN r.rest ELSE input
        /\ UNCHANGED <<buf, endian, section, bases, abbrevs, calls>>

NextSlice ==
    \/ ParseNullTerminatedString
    \/ \E n \in TakeCounts : Take(n)
    \/ \E width \in TargetWidths : ParseLengthUlebValue(width)

SpecSlice == InitSlice /\ [][NextSlice]_vars

\* C18: with i the index of the first zero byte of the input,
\* parse_null_terminated_string returns the bytes input[0..i], which hold
\* no zero byte, as the string and input[i+1..] as the remainder; without a
\* zero byte in the input it fails with UnexpectedEof.
C18_NullTerminatedString ==
    last.op = "parse_null_terminated_string" =>
        IF \E i \in 1..len(last.input) : bytes(last.input)[i] = 0
        THEN \E i \in 1..len(last.input) :
                /\ bytes(last.input)[i] = 0
                /\ \A j \in 1..(i - 1) : bytes(last.input)[j] # 0
                /\ IsOk(last.result)
                /\ to_bytes(ValueOf(last.result))
                     = SubSeq(bytes(last.input), 1, i - 1)
                /\ \A j \in 1..Len(to_bytes(ValueOf(last.result))) :
                      to_bytes(ValueOf(last.result))[j] # 0
                /\ bytes(last.result.rest)
                     = SubSeq(bytes(last.input), i + 1, len(last.input))
                /\ last.result.rest.hi = last.input.hi
        ELSE IsErr(last.result, "UnexpectedEof")

\* A string of two bytes, with a second terminator after the first.
C18_Witness ==
    /\ last.op = "parse_null_terminated_string"
    /\ bytes(last.input) = <<1, 7, 0, 0>>
    /\ IsOk(last.result)
    /\ to_bytes(ValueOf(last.result)) = <<1, 7>>
    /\ bytes(last.result.rest) = <<0>>

\* C19: take(n, input) with n <= len(input) gives the first n bytes as the
\* taken slice and the rest as the remainder, the two together being the
\* input, and take(0, input) succeeds on an empty input; with
\* n > len(input) it fails with UnexpectedEof.
C19_Take ==
    last.op = "take" =>
        IF /\ \A k \in 3..8 : last.bytes[k] = 0
           /\ last.bytes[1] + 256 * last.bytes[2] <= len(last.input)
        THEN /\ IsOk(last.result)
             /\ bytes(ValueOf(last.result))
                  = SubSeq(bytes(last.input), 1, last.bytes[1] + 256 * last.bytes[2])
             /\ bytes(ValueOf(last.result)) \o bytes(last.result.rest)
                  = bytes(last.input)
             /\ last.result.rest.hi = last.input.hi
        ELSE IsErr(last.result, "UnexpectedEof")

\* The whole of a non-empty input taken.
C19_Witness ==
    /\ last.op = "take"
    /\ len(last.input) = 3
    /\ last.bytes = <<3, 0, 0, 0, 0, 0, 0, 0>>
    /\ IsOk(last.result)
    /\ len(last.result.rest) = 0

\* C20: parse_length_uleb_value reads an unsigned LEB128 length L and, R
\* being what is left after it, returns the first L bytes of R and the rest
\* of R when L <= len(R), and fails with UnexpectedEof when L > len(R); a
\* block never has a length other than L, and a failure to read L is
\* handed on as it is.
C20_LengthUlebValue ==
    last.op = "parse_length_uleb_value" =>
        LET r == parse_unsigned_leb(last.input)
        IN  IF ~IsOk(r) THEN last.result = r
            ELSE IF /\ \A k \in 3..8 : ValueOf(r)[k] = 0
                    /\ ValueOf(r)[1] + 256 * ValueOf(r)[2] <= len(r.rest)
            THEN /\ IsOk(last.result)
                 /\ ValueOf(last.result)
                      = range_to(r.rest, ValueOf(r)[1] + 256 * ValueOf(r)[2])
                 /\ last.result.rest
                      = range_from(r.rest, ValueOf(r)[1] + 256 * ValueOf(r)[2])
            ELSE IsErr(last.result, "UnexpectedEof")

----------------------------------------------------------------------------
(* A LEB128 value narrowed to a byte.                                      *)

\* C21: parse_unsigned_leb_as_u8e hands on a failure of the LEB128 read
\* (UnexpectedEof or BadUnsignedLeb128) as it is; a value v <= 255 is
\* returned with the remainder after the LEB128 bytes; a value v > 255
\* gives CannotFitInU8, without a value or a remainder.
C21_LebAsU8 ==
    last.op = "parse_unsigned_leb_as_u8e" =>
        LET r == parse_unsigned_leb(last.input)
        IN  IF ~IsOk(r)
            THEN /\ last.result = r
                 /\ r.err \in {"UnexpectedEof", "BadUnsignedLeb128"}
            ELSE IF \A k \in 2..8 : ValueOf(r)[k] = 0
            THEN /\ IsOk(last.result)
                 /\ ValueOf(last.result) = ValueOf(r)[1]
                 /\ last.result.rest = r.rest
            ELSE /\ IsErr(last.result, "CannotFitInU8")
                 /\ last.result.value = <<>>
                 /\ last.result.rest = NoBuf
                 /\ input = last.input

\* The value 256, one more than fits.
C21_Witness ==
    /\ last.op = "parse_unsigned_leb_as_u8e"
    /\ StartsWith(last.input, <<128, 2>>)
    /\ IsErr(last.result, "CannotFitInU8")

----------------------------------------------------------------------------
(* Decoders called one after the other on a buffer that is a               *)
(* concatenation of encoded values: an initial length, a 32-bit word, an   *)
(* unsigned LEB128 value and a string.                                     *)

\* Section::L32 / Section::B32: a 32-bit value (least significant byte
\* first) as it is written in byte order e.
D32(e, w) == IF e = "little" THEN w ELSE <<w[4], w[3], w[2], w[1]>>

ChainLengths == {<<120, 86, 52, 18>>, <<239, 255, 255, 255>>}
ChainWords == {<<0, 0, 0, 0>>, <<255, 255, 255, 255>>}
ChainValues == {U64(0), U64(128), <<255, 255, 255, 255, 255, 255, 255, 255>>}
ChainStrings == {<<0>>, <<7, 7, 0>>}

InitChain ==
    /\ endian \in Endians
    /\ \E l \in ChainLengths, w \in ChainWords, v \in ChainValues,
          z \in ChainStrings :
          buf = D32(endian, l) \o D32(endian, w) \o uleb(v) \o z
    /\ section = [lo |-> 0, hi |-> Len(buf)]
    /\ input = section
    /\ bases = BaseAddresses_default
    /\ last = NoCall
    /\ abbrevs = Abbreviations_new
    /\ calls = NoCalls

NextChain ==
    \/ ParseU8 \/ ParseU16 \/ ParseU32 \/ ParseU64
    \/ ParseInitialLength \/ ParseUnsignedLeb \/ ParseSignedLeb
    \/ ParseNullTerminatedString

SpecChain == InitChain /\ [][NextChain]_vars

\* The bytes a successful call of the decoder `op` reads at cursor c: the
\* width of a fixed-width value, the word and its 64-bit continuation, the
\* bytes up to the one that ends a LEB128 value or a string.
BytesRead(op, c) ==
    CASE op = "parse_u8" -> 1
      [] op = "parse_u16" -> 2
      [] op = "parse_u32" -> 4
      [] op = "parse_u64" -> 8
      [] op = "parse_initial_length" ->
            IF \A k \in 0..3 : at(c, k) = 255 THEN 12 ELSE 4
      [] op \in {"parse_unsigned_leb", "parse_signed_leb"} ->
            1 + CHOOSE i \in 0..(len(c) - 1) :
                    /\ at(c, i) < 128
                    /\ \A j \in 0..(i - 1) : at(c, j) >= 128
      [] op = "parse_null_terminated_string" ->
            1 + CHOOSE i \in 0..(len(c) - 1) :
                    /\ at(c, i) = 0
                    /\ \A j \in 0..(i - 1) : at(c, j) # 0

\* A successful call is given the caller's cursor, and the caller goes on
\* right after the bytes the call has read.
ConsumesWhatItReads ==
    (last' # last /\ IsOk(last'.result)) =>
        /\ last'.input = input
        /\ input' = last'.result.rest
        /\ input'.hi = input.hi
        /\ input'.lo = input.lo + BytesRead(last'.op, input)

\* The remainder is a suffix of the buffer: the bytes consumed so far and
\* the remainder add up to the buffer.
RemainderIsSuffix ==
    /\ input.hi = Len(buf)
    /\ input.lo >= 0 /\ input.lo <= input.hi
    /\ SubSeq(buf, 1, input.lo) \o bytes(input) = buf

\* The matching decoders on the concatenation give the values back, and
\* the last of them leaves nothing.
ValuesInOrder ==
    \A l \in ChainLengths, w \in ChainWords, v \in ChainValues,
       z \in ChainStrings :
        buf = D32(endian, l) \o D32(endian, w) \o uleb(v) \o z =>
            /\ (last.op = "parse_initial_length" /\ last.input.lo = 0) =>
                  /\ IsOk(last.result)
                  /\ ValueOf(last.result)
                       = [length |-> ZeroExtend(l), format |-> "Dwarf32"]
                  /\ input.lo = 4
            /\ (last.op = "parse_u32" /\ last.input.lo = 4) =>
                  /\ IsOk(last.result)
                  /\ ValueOf(last.result) = w
                  /\ input.lo = 8
            /\ (last.op = "parse_unsigned_leb" /\ last.input.lo = 8) =>
                  /\ IsOk(last.result)
                  /\ ValueOf(last.result) = v
                  /\ input.lo = 8 + Len(uleb(v))
            /\ (last.op = "parse_null_terminated_string"
                  /\ last.input.lo = 8 + Len(uleb(v))) =>
                  /\ IsOk(last.result)
                  /\ to_bytes(ValueOf(last.result)) = SubSeq(z, 1, Len(z) - 1)
                  /\ len(input) = 0

\* C22: in a chain of successful decode calls, each given the remainder of
\* the one before, every remainder is a suffix of the buffer, a call starts
\* right after the bytes the one before has read (no byte is read twice)
\* and the bytes consumed and the last remainder add up to the buffer; on a
\* concatenation of encoded values the matching decoders give the values
\* in order and end on an empty remainder.
C22_ChainedDecoding ==
    /\ [](RemainderIsSuffix /\ ValuesInOrder)
    /\ [][ConsumesWhatItReads]_vars

\* The fourth decoder of the matching chain has emptied the buffer.
C22_Witness ==
    /\ last.op = "parse_null_terminated_string"
    /\ last.input.lo = 18
    /\ IsOk(last.result)
    /\ to_bytes(ValueOf(last.result)) = <<7, 7>>
    /\ len(input) = 0
    /\ Len(buf) = 21

----------------------------------------------------------------------------
(* The scope of the function base.                                         *)

\* The quantity a recorded call has decoded from its input.
StoredOf(call) ==
    parse_data(endian, call.encoding, call.address_size, call.input)

\* The step is a call that resolves a function-relative pointer.
ResolvesFuncRel ==
    /\ last' # last
    /\ last'.op = "parse_encoded_pointer"
    /\ AllowListed(last'.encoding)
    /\ ApplicationOf(last'.encoding) = "funcrel"

\* What a resolve returns, from the function base as the caller has left it
\* before the call.
ScopedResolve ==
    ResolvesFuncRel =>
        /\ bases' = bases
        /\ IF bases.func.some
           THEN IF IsOk(StoredOf(last'))
                THEN /\ IsOk(last'.result)
                     /\ ValueOf(last'.result).addr
                          = Mod64Sum(bases.func.v, ValueOf(StoredOf(last')))
                     /\ last'.result.rest = StoredOf(last').rest
                ELSE /\ last'.result = StoredOf(last')
                     /\ ~IsErr(last'.result, "FuncRelativePointerInBadContext")
           ELSE IsErr(last'.result, "FuncRelativePointerInBadContext")

\* C23: over the caller's steps "set the function base to f", "clear the
\* function base" and "resolve a function-relative pointer", a resolve
\* whose stored quantity decodes succeeds exactly when the base is set at
\* that moment, with f + quantity modulo 2^64 for the f set last; it fails
\* with FuncRelativePointerInBadContext when the base was never set or was
\* cleared since; and a resolve leaves the base as it was.
C23_FuncBaseScope == [][ScopedResolve]_vars

\* A pointer resolved against the second function base, the sum wrapping
\* around 2^64.
C23_Witness ==
    /\ IsPointerCall
    /\ last.encoding = DW_EH_PE_funcrel + DW_EH_PE_udata2
    /\ bases.func = Some(<<240, 255, 255, 255, 255, 255, 255, 255>>)
    /\ IsOk(last.result)
    /\ ValueOf(Stored)[1] >= 16
    /\ ValueOf(last.result).addr[8] = 0

----------------------------------------------------------------------------
(* A higher layer that builds abbreviations and inserts them into its set. *)

\* The codes the callers use; the maximum is the number of distinct
\* nonzero codes.
MaxCode == 3
AbbreviationCodes == 0..MaxCode

InitAbbreviations ==
    /\ buf = <<>>
    /\ endian = "little"
    /\ section = NoBuf
    /\ input = NoBuf
    /\ bases = BaseAddresses_default
    /\ last = NoCall
    /\ abbrevs = Abbreviations_new
    /\ calls = NoCalls

\* `abbrevs.insert(Abbreviation::new(code, tag, has_children, attributes))`:
\* a panic of the constructor ends the statement before insert is called.
Insert(c, tag, children, attributes) ==
    LET made == Abbreviation_new(c, tag, children, attributes)
        asked == [code |-> c, tag |-> tag, has_children |-> children,
                  attributes |-> attributes]
    IN  IF ~IsOk(made)
        THEN /\ last' = [Call("Abbreviation::new", NoBuf, made)
                           EXCEPT !.abbrev = Some(asked)]
             /\ UNCHANGED <<buf, endian, section, input, bases, abbrevs, calls>>
        ELSE LET r == insert(abbrevs, ValueOf(made))
             IN  /\ last' = [Call("insert", NoBuf, r.result)
                               EXCEPT !.abbrev = Some(ValueOf(made))]
                 /\ abbrevs' = r.abbrevs
                 /\ UNCHANGED <<buf, endian, section, input, bases, calls>>

\* `abbrev.has_children()` on an abbreviation of the set.
HasChildren(c) ==
    /\ c \in DOMAIN abbrevs
    /\ last' = [Call("has_children", NoBuf,
                     Ok(NoBuf, has_children(abbrevs[c])))
                  EXCEPT !.abbrev = Some(abbrevs[c])]
    /\ UNCHANGED <<buf, endian, section, input, bases, abbrevs, calls>>

NextAbbreviations ==
    \/ \E c \in AbbreviationCodes, tag \in AbbreviationTags,
          children \in AbbreviationHasChildren,
          attributes \in AttributeLists :
          Insert(c, tag, children, attributes)
    \/ \E c \in AbbreviationCodes : HasChildren(c)

SpecAbbreviations == InitAbbreviations /\ [][NextAbbreviations]_vars

\* The step is a call of insert.
Inserts == last'.op = "insert" /\ <<last, abbrevs>>' # <<last, abbrevs>>

\* Ok and the new entry when the code is vacant, Err and the same set when
\* it is occupied.
InsertOutcome ==
    Inserts =>
        LET abbrev == last'.abbrev.v
        IN  IF abbrev.code \in DOMAIN abbrevs
            THEN /\ IsErr(last'.result, "()")
                 /\ abbrevs' = abbrevs
            ELSE /\ IsOk(last'.result)
                 /\ DOMAIN abbrevs' = DOMAIN abbrevs \cup {abbrev.code}
                 /\ abbrevs'[abbrev.code] = abbrev

\* An entry, once in the set, stays as it is.
FirstIsKept ==
    \A c \in DOMAIN abbrevs : c \in DOMAIN abbrevs' /\ abbrevs'[c] = abbrevs[c]

\* C24: from the empty set and after any inserts, insert returns Ok exactly
\* when no abbreviation with the same code is in the set and Err otherwise;
\* a rejected insert leaves the set as it was, so the set holds for each
\* code the first abbreviation inserted with it.
C24_InsertRejectsDuplicates ==
    [][InsertOutcome /\ FirstIsKept]_vars

\* A second, different abbreviation with the code of a stored one was
\* rejected.
C24_Witness ==
    /\ last.op = "insert"
    /\ IsErr(last.result, "()")
    /\ last.abbrev.v.code \in DOMAIN abbrevs
    /\ abbrevs[last.abbrev.v.code] # last.abbrev.v
    /\ Cardinality(DOMAIN abbrevs) = 2

\* C29: every abbreviation that was built has a nonzero code (building one
\* with code 0 aborts), and in the set each abbreviation is stored under
\* its own code: no key is 0 and no two entries have the same code.
C29_NonzeroOwnCode ==
    /\ last.op \in {"insert", "has_children"} => code(last.abbrev.v) # 0
    /\ last.op = "Abbreviation::new" =>
          /\ last.result.kind = "Panic"
          /\ last.abbrev.v.code = 0
    /\ \A c \in DOMAIN abbrevs : code(abbrevs[c]) = c /\ c # 0
    /\ \A c, d \in DOMAIN abbrevs :
          code(abbrevs[c]) = code(abbrevs[d]) => c = d

\* The constructor has aborted on code 0 while the set is full.
C29_Witness ==
    /\ last.op = "Abbreviation::new"
    /\ last.result.kind = "Panic"
    /\ DOMAIN abbrevs = 1..MaxCode

\* C30: the No variant has the value of DW_CHILDREN_no, 0x00, the Yes
\* variant the value of DW_CHILDREN_yes, 0x01, and has_children() is true
\* exactly for an abbreviation built with the Yes variant.
C30_DwChildrenEncoding ==
    /\ AbbreviationHasChildren_No = 0
    /\ AbbreviationHasChildren_Yes = 1
    /\ last.op = "has_children" =>
          (ValueOf(last.result)
             <=> last.abbrev.v.has_children = AbbreviationHasChildren_Yes)

\* has_children() alone: true exactly for the Yes variant.
C30_HasChildrenOfYes ==
    last.op = "has_children" =>
        (ValueOf(last.result)
           <=> last.abbrev.v.has_children = AbbreviationHasChildren_Yes)

----------------------------------------------------------------------------
(* LEB128 values that do not fit 64 bits.                                  *)

\* The cursor starts with a complete sequence: some byte has a clear
\* continuation bit.
Complete(c) == \E i \in 0..(len(c) - 1) : at(c, i) < 128

\* The number of bytes of the complete sequence at the cursor.
SequenceLength(c) ==
    1 + CHOOSE i \in 0..(len(c) - 1) :
            /\ at(c, i) < 128
            /\ \A j \in 0..(i - 1) : at(c, j) >= 128

\* Bit k (from 0) of the number the sequence denotes: bit k % 7 of the
\* byte k \div 7.
SequenceBit(c, k) == (at(c, k \div 7) \div (2 ^ (k % 7))) % 2

\* The unsigned number fits 64 bits: no bit from 64 up is set.
UnsignedFits(c) ==
    \A k \in 64..(7 * SequenceLength(c) - 1) : SequenceBit(c, k) = 0

\* The signed number (two's complement in 7n bits) fits 64 bits: every bit
\* from 63 up equals the sign.
SignedFits(c) ==
    LET top == 7 * SequenceLength(c) - 1
    IN  \A k \in 63..top : SequenceBit(c, k) = SequenceBit(c, top)

\* The 64-bit value v is the number of the sequence, widened with `above`.
IsNumberOf(v, c, above) ==
    LET top == 7 * SequenceLength(c) - 1
    IN  \A k \in 0..63 :
            BitOfU64(v, k, 0) = IF k <= top THEN SequenceBit(c, k) ELSE above

\* C27: a complete LEB128 sequence whose number does not fit 64 bits is
\* rejected, with BadUnsignedLeb128 by parse_unsigned_leb and with
\* BadSignedLeb128 by parse_signed_leb; a value that is returned is the
\* number of the sequence, no high-order bit of it was dropped.
C27_LebOverflow ==
    /\ (last.op = "parse_unsigned_leb" /\ Complete(last.input)) =>
          /\ ~UnsignedFits(last.input)
                => IsErr(last.result, "BadUnsignedLeb128")
          /\ IsOk(last.result) =>
                /\ UnsignedFits(last.input)
                /\ IsNumberOf(ValueOf(last.result), last.input, 0)
    /\ (last.op = "parse_signed_leb" /\ Complete(last.input)) =>
          /\ ~SignedFits(last.input)
                => IsErr(last.result, "BadSignedLeb128")
          /\ IsOk(last.result) =>
                /\ SignedFits(last.input)
                /\ IsNumberOf(ValueOf(last.result), last.input,
                              SequenceBit(last.input,
                                          7 * SequenceLength(last.input) - 1))

\* Ten bytes, the tenth 0x7f: 70 bits all set (2^70 - 1) rejected by the
\* unsigned decoder.
C27_Witness ==
    /\ last.op = "parse_unsigned_leb"
    /\ bytes(last.input) = Repeat(255, 9) \o <<127>>
    /\ ~UnsignedFits(last.input)
    /\ IsErr(last.result, "BadUnsignedLeb128")

\* Ten bytes, the tenth 0x01: bit 63 set under a clear sign, 2^63, rejected
\* by the signed decoder.
C27_WitnessSigned ==
    /\ last.op = "parse_signed_leb"
    /\ bytes(last.input) = Repeat(128, 9) \o <<1>>
    /\ ~SignedFits(last.input)
    /\ IsErr(last.result, "BadSignedLeb128")

----------------------------------------------------------------------------
(* The address size given to parse_encoded_pointer.                        *)

\* The descriptor's application has the base it needs, so that the stored
\* quantity is decoded.
ReachesData ==
    \/ ApplicationOf(last.encoding) = "absptr"
    \/ ApplicationOf(last.encoding) = "pcrel" /\ bases.cfi.some
    \/ /\ ApplicationOf(last.encoding) \in {"textrel", "datarel", "funcrel"}
       /\ SelectedBase.some

\* The outcomes of the recorded call had it been given the address size a.
WithAddressSize(a) ==
    parse_encoded_pointer(endian, last.encoding, bases, a, last.section,
                          last.input)

\* With a format other than absptr the outcome is the same for every
\* address size.
FormatsIgnoreAddressSize ==
    (IsPointerCall /\ AllowListed(last.encoding)
        /\ format(last.encoding) # DW_EH_PE_absptr) =>
        /\ last.result \in WithAddressSize(last.address_size)
        /\ \A a \in AllAddressSizes :
              WithAddressSize(a) = WithAddressSize(last.address_size)

\* C28: the address size matters to the absptr format only.  With the
\* LEB128 and fixed-width formats the bytes consumed and the result are
\* the same for every address size; with the absptr format exactly
\* address_size bytes are consumed, and an unsupported size fails with
\* UnsupportedAddressSize.
C28_AddressSizeOnlyForAbsptr ==
    /\ FormatsIgnoreAddressSize
    /\ (IsPointerCall /\ AllowListed(last.encoding) /\ ReachesData
          /\ format(last.encoding) = DW_EH_PE_absptr) =>
          /\ IsOk(last.result)
                => last.result.rest = range_from(last.input, last.address_size)
          /\ last.address_size \notin {1, 2, 4, 8}
                => IsErr(last.result, "UnsupportedAddressSize")

\* The part that holds: the other formats, and the absptr format with an
\* unsupported size once the input has address_size bytes.
C28_ExceptShortInput ==
    /\ FormatsIgnoreAddressSize
    /\ (IsPointerCall /\ AllowListed(last.encoding) /\ ReachesData
          /\ format(last.encoding) = DW_EH_PE_absptr) =>
          /\ IsOk(last.result)
                => last.result.rest = range_from(last.input, last.address_size)
          /\ (last.address_size \notin {1, 2, 4, 8}
                /\ len(last.input) >= last.address_size)
                => IsErr(last.result, "UnsupportedAddressSize")

\* udata8 with the address size 4: eight bytes consumed.
C28_WitnessUdata8 ==
    /\ IsPointerCall
    /\ last.encoding = DW_EH_PE_udata8
    /\ last.address_size = 4
    /\ IsOk(last.result)
    /\ last.result.rest = range_from(last.input, 8)

----------------------------------------------------------------------------
(* Calls run by several threads over one read-only buffer, a step at a     *)
(* time: the loop of the LEB128 reader, the scan for a string's            *)
(* terminator, and the read of the function base by parse_encoded_pointer. *)
(* A call's cursor, index and accumulator are its own (arguments and       *)
(* locals); the buffer and the bases are borrowed.                         *)

ThreadBuffers ==
    {<<>>, <<0>>, <<1, 0>>, <<129, 1, 0>>, <<128, 128>>, <<7, 7, 7>>,
     Repeat(255, MaxFill) \o <<1>>, Repeat(128, MaxFill) \o <<127, 0>>}

ThreadOps ==
    {"parse_unsigned_leb", "parse_signed_leb", "parse_null_terminated_string",
     "parse_encoded_pointer"}

\* The descriptors the pointer calls are given, and their address size.
ThreadEncodings ==
    {DW_EH_PE_funcrel + DW_EH_PE_udata2, DW_EH_PE_textrel + DW_EH_PE_uleb128,
     DW_EH_PE_omit}
ThreadAddressSize == 4

InitThreads ==
    /\ buf \in ThreadBuffers
    /\ endian \in Endians
    /\ section = [lo |-> 0, hi |-> Len(buf)]
    /\ input = section
    /\ \E f \in {None} \cup {Some(b) : b \in FuncBases} :
          bases = [cfi |-> None, text |-> Some(TextBase), data |-> None,
                   func |-> f]
    /\ last = NoCall
    /\ abbrevs = Abbreviations_new
    /\ calls = NoCalls

\* The entry of a call: its arguments, its locals at their first values.
\* `read` counts the bytes of the buffer the call has examined.
Enter(op, c, encoding) ==
    [pc |-> CASE op = "parse_null_terminated_string" -> "scan"
              [] op = "parse_encoded_pointer" -> "borrow"
              [] OTHER -> "loop",
     op |-> op, input |-> c, encoding |-> encoding,
     i |-> 0, bits |-> <<>>, read |-> 0, func |-> None, result |-> Err("")]

\* Thread t calls op on the buffer from position s on.
Begin(t, op, s, encoding) ==
    /\ calls[t].pc = "idle"
    /\ s <= Len(buf)
    /\ op # "parse_encoded_pointer" => encoding = 0
    /\ calls' = [calls EXCEPT
                   ![t] = Enter(op, [lo |-> s, hi |-> Len(buf)], encoding)]
    /\ UNCHANGED <<buf, endian, section, input, bases, last, abbrevs>>

\* The call of thread t returns r, having examined n bytes.
Finish(t, r, n) ==
    calls' = [calls EXCEPT ![t].pc = "done", ![t].result = r, ![t].read = n]

\* A terminator scan that stays on a byte that is not the terminator.
StepScanStuck(t) ==
    LET k == calls[t]
    IN  /\ k.pc = "scan"
        /\ IF k.i >= len(k.input) THEN Finish(t, Err("UnexpectedEof"), k.i)
           ELSE IF at(k.input, k.i) = 0
                THEN Finish(t, Ok(range_from(k.input, k.i + 1),
                                  range_to(k.input, k.i + 1)), k.i + 1)
                ELSE calls' = [calls EXCEPT ![t].read = k.i + 1]
        /\ UNCHANGED <<buf, endian, section, input, bases, last, abbrevs>>

\* parse_null_terminated_string: one step of `input.iter().position(..)`,
\* then the split at the terminator.
StepScan(t) ==
    LET k == calls[t]
    IN  /\ k.pc = "scan"
        /\ IF k.i >= len(k.input) THEN Finish(t, Err("UnexpectedEof"), k.i)
           ELSE IF at(k.input, k.i) = 0
                THEN Finish(t, Ok(range_from(k.input, k.i + 1),
                                  range_to(k.input, k.i + 1)), k.i + 1)
                ELSE calls' = [calls EXCEPT ![t].i = k.i + 1,
                                            ![t].read = k.i + 1]
        /\ UNCHANGED <<buf, endian, section, input, bases, last, abbrevs>>

\* The bytes the reader accepts at shift 63, and what fills the bits above
\* a value that ends on byte b after n bytes.
TopBytes(op) == IF op = "parse_unsigned_leb" THEN {0, 1} ELSE {0, 127}
Fill(op, b, n) ==
    IF op = "parse_signed_leb" /\ 7 * n < 64 THEN (b \div 64) % 2 ELSE 0
BadLeb(op) ==
    IF op = "parse_unsigned_leb" THEN "BadUnsignedLeb128"
    ELSE "BadSignedLeb128"

\* A reader whose position in the buffer is shared by the threads: a byte
\* taken by one call moves every call that is in its loop.
StepLebShared(t) ==
    LET k == calls[t]
        b == at(k.input, k.i)
    IN  /\ k.pc = "loop"
        /\ IF k.i >= len(k.input) THEN Finish(t, Err("UnexpectedEof"), k.i)
           ELSE IF 7 * k.i = 63 /\ b \notin TopBytes(k.op)
                THEN Finish(t, Err(BadLeb(k.op)), k.i + 1)
                ELSE IF b < 128
                     THEN Finish(t,
                            Ok(range_from(k.input, k.i + 1),
                               BitsToU64(To64(k.bits \o BitsOf(b, 7),
                                              Fill(k.op, b, k.i + 1)))),
                            k.i + 1)
                     ELSE calls' =
                            [u \in Threads |->
                               IF u = t
                               THEN [k EXCEPT !.i = k.i + 1, !.read = k.i + 1,
                                              !.bits = k.bits \o BitsOf(b, 7)]
                               ELSE IF calls[u].pc = "loop"
                                    THEN [calls[u] EXCEPT !.i = calls[u].i + 1]
                                    ELSE calls[u]]
        /\ UNCHANGED <<buf, endian, section, input, bases, last, abbrevs>>

\* parse_unsigned_leb / parse_signed_leb: one turn of the reader's loop
\* (read_exact of one byte, the test at shift 63, the group shifted into
\* the result, the continuation bit), and the mapping of its errors.
StepLeb(t) ==
    LET k == calls[t]
        b == at(k.input, k.i)
    IN  /\ k.pc = "loop"
        /\ IF k.i >= len(k.input) THEN Finish(t, Err("UnexpectedEof"), k.i)
           ELSE IF 7 * k.i = 63 /\ b \notin TopBytes(k.op)
                THEN Finish(t, Err(BadLeb(k.op)), k.i + 1)
                ELSE IF b < 128
                     THEN Finish(t,
                            Ok(range_from(k.input, k.i + 1),
                               BitsToU64(To64(k.bits \o BitsOf(b, 7),
                                              Fill(k.op, b, k.i + 1)))),
                            k.i + 1)
                     ELSE calls' = [calls EXCEPT
                                      ![t].i = k.i + 1, ![t].read = k.i + 1,
                                      ![t].bits = k.bits \o BitsOf(b, 7)]
        /\ UNCHANGED <<buf, endian, section, input, bases, last, abbrevs>>

\* parse_encoded_pointer: `bases.func.borrow()`, a read of the cell.
StepBorrow(t) ==
    /\ calls[t].pc = "borrow"
    /\ calls' = [calls EXCEPT ![t].pc = "resolve", ![t].func = bases.func]
    /\ UNCHANGED <<buf, endian, section, input, bases, last, abbrevs>>

\* ... and the rest of the call, with the value that was read.
StepResolve(t) ==
    LET k == calls[t]
    IN  /\ k.pc = "resolve"
        /\ \E r \in parse_encoded_pointer(endian, k.encoding,
                                          [bases EXCEPT !.func = k.func],
                                          ThreadAddressSize, section, k.input) :
              Finish(t, r, IF IsOk(r) THEN r.rest.lo - k.input.lo ELSE 0)
        /\ UNCHANGED <<buf, endian, section, input, bases, last, abbrevs>>

\* The caller takes the result; the thread is free for its next call.
Return(t) ==
    /\ calls[t].pc = "done"
    /\ calls' = [calls EXCEPT ![t] = NotCalling]
    /\ UNCHANGED <<buf, endian, section, input, bases, last, abbrevs>>

\* A step of the call of thread t.
Step(t) == StepLeb(t) \/ StepScan(t) \/ StepBorrow(t) \/ StepResolve(t)

NextThreads ==
    \/ \E t \in Threads, op \in ThreadOps, s \in 0..MaxStart,
          encoding \in ThreadEncodings \cup {0} : Begin(t, op, s, encoding)
    \/ \E t \in Threads : StepLeb(t)
    \/ \E t \in Threads : StepScan(t)
    \/ \E t \in Threads : StepBorrow(t)
    \/ \E t \in Threads : StepResolve(t)
    \/ \E t \in Threads : Return(t)

SpecThreads == InitThreads /\ [][NextThreads]_vars

\* The same threads on a string without its terminator, a value followed
\* by a terminator, and a value cut short.
InitThreadsFair ==
    /\ InitThreads
    /\ buf \in {<<7, 7, 7>>, <<129, 1, 0>>, <<128, 128>>}
    /\ endian = "little"
    /\ bases.func # Some(U64(16))

\* A thread that is in a call is scheduled again: the call blocks on
\* nothing, so its next step is always enabled.
SpecThreadsFair ==
    /\ InitThreadsFair
    /\ [][NextThreads]_vars
    /\ \A t \in Threads : WF_vars(Step(t))

\* The results the call k returns when it runs alone on the buffer.
Alone(k) ==
    CASE k.op = "parse_unsigned_leb" -> {parse_unsigned_leb(k.input)}
      [] k.op = "parse_signed_leb" -> {parse_signed_leb(k.input)}
      [] k.op = "parse_null_terminated_string" ->
            {parse_null_terminated_string(k.input)}
      [] k.op = "parse_encoded_pointer" ->
            parse_encoded_pointer(endian, k.encoding, bases,
                                  ThreadAddressSize, section, k.input)

InCall(t) == calls[t].pc \notin {"idle", "done"}

\* A step leaves the buffer and the bases as they are and changes the
\* call of one thread at most.
OwnCallOnly ==
    /\ buf' = buf
    /\ bases' = bases
    /\ \A t, u \in Threads :
          (calls'[t] # calls[t] /\ calls'[u] # calls[u]) => t = u

\* C25: calls over the same or overlapping read-only buffers and the same
\* bases, interleaved in any order, return each the result they return
\* when run alone; no call changes the buffer, the bases or the cursor of
\* another call.
C25_NoSharedState ==
    /\ [](\A t \in Threads :
            calls[t].pc = "done" => calls[t].result \in Alone(calls[t]))
    /\ [][OwnCallOnly]_vars

\* A call has returned a value while the call of the other thread, begun
\* one byte further in the same buffer, is in the middle of its loop.
C25_Witness ==
    /\ calls["a"].pc = "done"
    /\ calls["a"].op = "parse_unsigned_leb"
    /\ IsOk(calls["a"].result)
    /\ calls["a"].input.lo = 0
    /\ calls["b"].pc = "loop"
    /\ calls["b"].input.lo = 1
    /\ calls["b"].i >= 1

\* C26: every decoding operation terminates on every input: a call that
\* was begun returns a value or an error, and the LEB128 loop and the
\* terminator scan examine no more bytes than remain in the buffer.
C26_Terminates ==
    /\ [](\A t \in Threads :
            calls[t].pc # "idle" =>
                /\ calls[t].i <= len(calls[t].input)
                /\ calls[t].read <= len(calls[t].input))
    /\ \A t \in Threads : InCall(t) ~> calls[t].pc = "done"

\* A scan has run to the end of a buffer without a terminator, having
\* examined each of its bytes, and has returned the error.
C26_Witness ==
    /\ calls["a"].pc = "done"
    /\ calls["a"].op = "parse_null_terminated_string"
    /\ bytes(calls["a"].input) = <<7, 7, 7>>
    /\ calls["a"].read = 3
    /\ IsErr(calls["a"].result, "UnexpectedEof")

====
